---- MODULE Spec2Model ----
(***************************************************************************)
(* Model of keras_cv/src/utils/resource_loader.py (the resource locator    *)
(* and the lazily loaded custom-op handle LazySO) and of pip_build.py (the *)
(* release builder).  Strings are sequences of code points, so that        *)
(* joining, normalising, prefix and substring tests are computed the way   *)
(* the Python code computes them; a comment gives the text of a literal.   *)
(* The host is POSIX: os.sep is "/" and os.linesep is a line feed.         *)
(***************************************************************************)
EXTENDS Integers, Sequences, FiniteSets, TLC

VARIABLES
    \* ---- the process environment and the filesystem seen by the locator
    environ,                    \* os.environ["KERAS_CV_DATA_ROOT"]
    existing,                   \* the paths for which os.path.exists is true
    lastCall,                   \* the last direct call of get_path_to_datafile
    \* ---- resource_loader module state and the LazySO handles
    tf_version,                 \* tf.__version__
    abi_warning_already_raised, \* the module-level flag
    warnings_filter,            \* what the warnings filters do with a UserWarning
    so_ops,                     \* handle -> its _ops attribute
    warnings_emitted,           \* the warnings issued: shown, or raised
    lastAccess,                 \* the last access of a handle's ops property
    \* ---- pip_build.py run as a script
    pc,                         \* position of the script
    args,                       \* the parsed command line: nightly, install
    version_file,               \* bytes of keras_cv/src/version_utils.py
    setup_file,                 \* bytes of setup.py
    pre_build,                  \* the two files as they were before the call
    ctx,                        \* locals of nightly_overrides
    wheels,                     \* the wheels directory: name -> file
    dist,                       \* the dist directory: name -> file
    cmd_log,                    \* the external commands run, in order
    exc,                        \* the exception in flight, if any
    build_out,                  \* what build located, copied and returned
    exit_status                 \* the exit status of the script's process

envVars   == <<environ, existing>>
locVars   == <<lastCall>>
lazyVars  == <<tf_version, abi_warning_already_raised, warnings_filter,
               so_ops, warnings_emitted, lastAccess>>
buildVars == <<pc, args, version_file, setup_file, pre_build, ctx, wheels,
               dist, cmd_log, exc, build_out, exit_status>>
vars      == <<envVars, locVars, lazyVars, buildVars>>

-----------------------------------------------------------------------------
(* Bounds of the model.                                                    *)

MaxPathLen == 2      \* longest resource path given to the locator
MaxWarnLog == 3      \* the warning log stops growing at this length
MaxMtime   == 2      \* modification times of wheels range over 1..MaxMtime
MaxRc      == 2      \* exit codes of external commands range over 0..MaxRc
MaxWheels  == 2      \* most files the wheels directory holds

-----------------------------------------------------------------------------
(* Python string operations on sequences of characters.                    *)

StartsWith(s, prefix) ==
    /\ Len(prefix) <= Len(s)
    /\ SubSeq(s, 1, Len(prefix)) = prefix

EndsWith(s, suffix) ==
    /\ Len(suffix) <= Len(s)
    /\ SubSeq(s, Len(s) - Len(suffix) + 1, Len(s)) = suffix

\* Python's `sub in s`.
Contains(s, sub) ==
    \E i \in 1..(Len(s) - Len(sub) + 1) : SubSeq(s, i, i + Len(sub) - 1) = sub

\* str.replace for a single-character `old`.
RECURSIVE Replace(_, _, _)
Replace(s, old, new) ==
    IF s = <<>> THEN <<>>
    ELSE (IF Head(s) = old THEN new ELSE <<Head(s)>>)
         \o Replace(Tail(s), old, new)

RECURSIVE SplitFrom(_, _, _)
SplitFrom(s, sep, cur) ==
    IF s = <<>> THEN <<cur>>
    ELSE IF Head(s) = sep
         THEN <<cur>> \o SplitFrom(Tail(s), sep, <<>>)
         ELSE SplitFrom(Tail(s), sep, Append(cur, Head(s)))

\* str.split for a single-character separator.
Split(s, sep) == SplitFrom(s, sep, <<>>)

\* sep.join(parts)
RECURSIVE JoinWith(_, _)
JoinWith(sep, parts) ==
    IF parts = <<>> THEN <<>>
    ELSE IF Len(parts) = 1 THEN Head(parts)
    ELSE Head(parts) \o sep \o JoinWith(sep, Tail(parts))

\* str.rstrip("/")
RECURSIVE RStripSlash(_)
RStripSlash(s) ==
    \* 47 is "/"
    IF s # <<>> /\ s[Len(s)] = 47 THEN RStripSlash(SubSeq(s, 1, Len(s) - 1))
    ELSE s

\* str.rfind("/") + 1: the length of the part up to and with the last slash.
RECURSIVE HeadLen(_)
HeadLen(s) ==
    IF s = <<>> THEN 0
    ELSE IF s[Len(s)] = 47 THEN Len(s)   \* 47 is "/"
    ELSE HeadLen(SubSeq(s, 1, Len(s) - 1))

-----------------------------------------------------------------------------
(* posixpath, as the locator uses it.                                      *)

os_sep == <<47>>   \* "/"

\* os.path.join(a, b)
join(a, b) ==
    IF StartsWith(b, <<47>>) THEN b   \* "/"
    ELSE IF a = <<>> \/ EndsWith(a, <<47>>) THEN a \o b   \* "/"
    ELSE a \o <<47>> \o b   \* "/"

DotDot == <<46, 46>>   \* ".."

RECURSIVE NormComps(_, _, _)
NormComps(comps, initial_slashes, new_comps) ==
    IF comps = <<>> THEN new_comps
    ELSE LET comp == Head(comps)
             rest == Tail(comps)
         IN  IF comp = <<>> \/ comp = <<46>>   \* "."
             THEN NormComps(rest, initial_slashes, new_comps)
             ELSE IF \/ comp # DotDot
                     \/ (initial_slashes = 0 /\ new_comps = <<>>)
                     \/ (new_comps # <<>> /\ new_comps[Len(new_comps)] = DotDot)
             THEN NormComps(rest, initial_slashes, Append(new_comps, comp))
             ELSE IF new_comps # <<>>
             THEN NormComps(rest, initial_slashes,
                            SubSeq(new_comps, 1, Len(new_comps) - 1))
             ELSE NormComps(rest, initial_slashes, new_comps)

\* os.path.normpath(path)
normpath(path) ==
    IF path = <<>> THEN <<46>>   \* "."
    ELSE LET initial_slashes ==
                 IF ~StartsWith(path, <<47>>) THEN 0   \* "/"
                 ELSE IF StartsWith(path, <<47, 47>>)   \* "//"
                         /\ ~StartsWith(path, <<47, 47, 47>>)   \* "///"
                      THEN 2
                      ELSE 1
             body == JoinWith(<<47>>,   \* "/"
                              \* 47 is "/"
                              NormComps(Split(path, 47), initial_slashes, <<>>))
             slashes == [i \in 1..initial_slashes |-> 47]   \* 47 is "/"
             out == slashes \o body
         IN  IF out = <<>> THEN <<46>> ELSE out   \* "."

\* os.path.dirname(p)
dirname(p) ==
    LET head == SubSeq(p, 1, HeadLen(p))
    IN  IF head # <<>> /\ head # [i \in 1..Len(head) |-> 47]   \* 47 is "/"
        THEN RStripSlash(head)
        ELSE head

-----------------------------------------------------------------------------
(* resource_loader.py: the locator.                                        *)

\* __file__ of the module, already absolute (os.path.abspath normalises it)
ModuleFile ==
    <<47, 119, 47, 107, 101, 114, 97, 115, 95, 99, 118, 47, 115, 114, 99,
      47, 117, 116, 105, 108, 115, 47, 114, 101, 115, 111, 117, 114, 99,
      \* "/w/keras_cv/src/utils/resource_loader.py"
      101, 95, 108, 111, 97, 100, 101, 114, 46, 112, 121>>

BazelBin == <<98, 97, 122, 101, 108, 45, 98, 105, 110>>   \* "bazel-bin"
KerasCv  == <<107, 101, 114, 97, 115, 95, 99, 118>>   \* "keras_cv"
Src      == <<115, 114, 99>>   \* "src"

get_project_root == dirname(dirname(normpath(ModuleFile)))

\* A value of os.environ.get(name): None when unset, else a string.
Unset      == [set |-> FALSE, val |-> <<>>]
EnvStr(s)  == [set |-> TRUE, val |-> s]
\* Python truthiness of such a value: None and "" are falsy.
Truthy(v)  == v.set /\ v.val # <<>>

\* Lines 55-57 and 70: the three roots that do not depend on the call.
root_dir       == get_project_root
package_root   == dirname(root_dir)
workspace_root == dirname(package_root)
bazel_root     == join(join(join(workspace_root, BazelBin), KerasCv), Src)

\* A faulty variant, for comparison: the override root is searched last instead of first.
SearchRootsOverrideLast(env) ==
    << root_dir, package_root, bazel_root >>
    \o (IF Truthy(env) THEN <<env.val>> ELSE <<>>)

\* A faulty variant, for comparison: the parent of the project root is left out of the search.
SearchRootsNoParent(env) ==
    (IF Truthy(env) THEN <<env.val>> ELSE <<>>)
    \o << root_dir, bazel_root >>

\* search_roots, as lines 59-72 build it from the value of
\* os.environ.get("KERAS_CV_DATA_ROOT")
SearchRoots(override_root) ==
    (IF Truthy(override_root) THEN <<override_root.val>> ELSE <<>>)
    \o << root_dir, package_root, bazel_root >>

\* The for loop of lines 74-90.  The result says whether FileNotFoundError
\* was raised, the path returned, and attempted_paths (the list the error
\* message enumerates).
RECURSIVE SearchLoop(_, _, _, _)
SearchLoop(roots, normalized_path, ex, attempted_paths) ==
    IF roots = <<>>
    THEN [raised |-> TRUE, value |-> <<>>, attempted |-> attempted_paths]
    ELSE LET candidate_root == Head(roots)
         IN  IF candidate_root = <<>>
             THEN SearchLoop(Tail(roots), normalized_path, ex, attempted_paths)
             ELSE LET candidate ==
                          normpath(join(candidate_root, normalized_path))
                      att == Append(attempted_paths, candidate)
                  IN  IF candidate \in ex
                      THEN [raised |-> FALSE, value |-> candidate,
                            attempted |-> att]
                      ELSE SearchLoop(Tail(roots), normalized_path, ex, att)

get_path_to_datafile(path, env, ex) ==
    \* 47 is "/"
    SearchLoop(SearchRoots(env), Replace(path, 47, os_sep), ex, <<>>)

-----------------------------------------------------------------------------
(* The inputs of the locator.                                              *)

PathAlphabet == {47, 46, 97}   \* 47 is "/", 46 is ".", 97 is "a"
Paths == UNION {[1..n -> PathAlphabet] : n \in 0..MaxPathLen}

Overrides ==
    { Unset,
      EnvStr(<<>>),
      EnvStr(<<47, 111>>),   \* "/o"
      EnvStr(<<111>>),   \* "o"
      \* "/w/keras_cv"
      EnvStr(<<47, 119, 47, 107, 101, 114, 97, 115, 95, 99, 118>>) }

\* The paths a call for `path` can ask the filesystem about.
CandidateSet(path, env) ==
    LET roots == SearchRoots(env)
    IN  {normpath(join(roots[i], Replace(path, 47, os_sep))) :   \* 47 is "/"
            i \in 1..Len(roots)}

NoCall == [called |-> FALSE]

-----------------------------------------------------------------------------
(* resource_loader.py: LazySO and the ABI warning.                         *)

TF_VERSION_FOR_ABI_COMPATIBILITY == <<50, 46, 49, 55>>   \* "2.17"

abi_is_compatible(user_version) ==
    StartsWith(user_version, TF_VERSION_FOR_ABI_COMPATIBILITY)

\* The value of a handle's _ops: None, or the library loaded from a path.
None      == [loaded |-> FALSE, lib |-> <<>>]
Lib(path) == [loaded |-> TRUE, lib |-> path]

\* LazySO.__init__
LazySO(relative_path) == [relative_path |-> relative_path, _ops |-> None]

\* warnings.warn(message, UserWarning) under the filter in force: the
\* warning is shown and the call returns, or it is dropped and the call
\* returns, or, under "error", it is raised as an exception.
warn(filter) ==
    [issued |-> filter # "ignore", raised |-> filter = "error"]

\* display_warning_if_incompatible: whether the warning is issued, whether
\* warnings.warn raises it, and the value of abi_warning_already_raised
\* afterwards.  The flag is assigned after warnings.warn, so it keeps its
\* value when that call raises.
display_warning_if_incompatible(flag, user_version, filter) ==
    IF flag \/ abi_is_compatible(user_version)
    THEN [warned |-> FALSE, raised |-> FALSE, flag |-> flag]
    ELSE LET w == warn(filter)
         IN  IF w.raised
             THEN [warned |-> w.issued, raised |-> TRUE, flag |-> flag]
             ELSE [warned |-> w.issued, raised |-> FALSE, flag |-> TRUE]

\* The ops property.  load_ok says whether tf.load_op_library accepts the
\* file it is given; it raises otherwise.  The result is the handle and the
\* flag afterwards, whether the warning was issued, and what the access
\* gave: the loaded library, or the exception raised.  A warning that is
\* raised leaves the property before the library is looked for.
ops(self, flag, user_version, filter, env, ex, load_ok) ==
    IF self._ops = None
    THEN LET w == display_warning_if_incompatible(flag, user_version, filter)
             p == get_path_to_datafile(self.relative_path, env, ex)
         IN  IF w.raised
             THEN [self |-> self, flag |-> w.flag, warned |-> w.warned,
                   outcome |-> [kind |-> "UserWarning", value |-> <<>>]]
             ELSE IF p.raised
             THEN [self |-> self, flag |-> w.flag, warned |-> w.warned,
                   outcome |-> [kind |-> "FileNotFoundError", value |-> <<>>]]
             ELSE IF ~load_ok
             THEN [self |-> self, flag |-> w.flag, warned |-> w.warned,
                   outcome |-> [kind |-> "LoadError", value |-> p.value]]
             ELSE [self |-> [self EXCEPT !._ops = Lib(p.value)],
                   flag |-> w.flag, warned |-> w.warned,
                   outcome |-> [kind |-> "loaded", value |-> p.value]]
    ELSE [self |-> self, flag |-> flag, warned |-> FALSE,
          outcome |-> [kind |-> "loaded", value |-> self._ops.lib]]

-----------------------------------------------------------------------------
(* The inputs of the LazySO handles.                                       *)

MaxHandles == 2      \* handles created in one process

LazyPaths == { <<97>>, <<97, 47, 97>> }   \* "a", "a/a"

TfVersions ==
    { <<50, 46, 49, 55, 46, 48>>,   \* "2.17.0"
      <<50, 46, 49, 54, 46, 49>>,   \* "2.16.1"
      <<50, 46, 49>> }   \* "2.1"

\* The action of the first warnings filter that matches the UserWarning.
\* "default" stands for the actions that show the warning the first time
\* this call issues it ("default", "always", "module", "once").
WarningsFilters == {"default", "ignore", "error"}

NoAccess == [called |-> FALSE]

-----------------------------------------------------------------------------
(* pip_build.py: text files.  A text is a sequence of code points and a    *)
(* file a sequence of bytes.  Files are read and written in the encoding   *)
(* of the locale, UTF-8.  The replacement templates of re, int() and the   *)
(* character classes are those of CPython 3.11 (Unicode 14).               *)

DQ == 34        \* the double quote
SQ == 39        \* the single quote
LF == 10        \* line feed
CR == 13        \* carriage return
TAB == 9        \* horizontal tab
VT == 11        \* vertical tab
FF == 12        \* form feed
NBSP == 160     \* no-break space, U+00A0
Backslash == 92

os_linesep == <<LF>>

Min(S) == CHOOSE i \in S : \A j \in S : i <= j

HasAt(s, i, w) ==
    /\ i + Len(w) - 1 <= Len(s)
    /\ SubSeq(s, i, i + Len(w) - 1) = w

\* The code points UTF-8 does not encode: the surrogates.
IsSurrogate(c) == c \in 55296..57343

\* Whether text.encode("utf-8") returns; it raises UnicodeEncodeError
\* otherwise.
CanEncode(text) == \A i \in 1..Len(text) : ~IsSurrogate(text[i])

\* The UTF-8 bytes of one code point.
EncodeChar(c) ==
    IF c < 128 THEN <<c>>
    ELSE IF c < 2048 THEN <<192 + (c \div 64), 128 + (c % 64)>>
    ELSE IF c < 65536
    THEN <<224 + (c \div 4096), 128 + ((c \div 64) % 64), 128 + (c % 64)>>
    ELSE <<240 + (c \div 262144), 128 + ((c \div 4096) % 64),
           128 + ((c \div 64) % 64), 128 + (c % 64)>>

RECURSIVE Utf8Encode(_)
Utf8Encode(text) ==
    IF text = <<>> THEN <<>>
    ELSE EncodeChar(Head(text)) \o Utf8Encode(Tail(text))

\* The length of the UTF-8 sequence a byte starts; 0 when it starts none.
SeqLen(b1) ==
    IF b1 < 128 THEN 1
    ELSE IF b1 \in 194..223 THEN 2
    ELSE IF b1 \in 224..239 THEN 3
    ELSE IF b1 \in 240..244 THEN 4
    ELSE 0

\* A well-formed sequence starts at byte i: no overlong form, no surrogate,
\* nothing above U+10FFFF.
WellFormedAt(b, i) ==
    LET n == SeqLen(b[i])
    IN  /\ n > 0
        /\ i + n - 1 <= Len(b)
        /\ \A k \in 1..(n - 1) : b[i + k] \in 128..191
        /\ (b[i] = 224) => (b[i + 1] >= 160)
        /\ (b[i] = 237) => (b[i + 1] <= 159)
        /\ (b[i] = 240) => (b[i + 1] >= 144)
        /\ (b[i] = 244) => (b[i + 1] <= 143)

\* The code point of the well-formed sequence at byte i.
CodePointAt(b, i) ==
    LET n == SeqLen(b[i])
    IN  IF n = 1 THEN b[i]
        ELSE IF n = 2 THEN (b[i] - 192) * 64 + (b[i + 1] - 128)
        ELSE IF n = 3
        THEN (b[i] - 224) * 4096 + (b[i + 1] - 128) * 64 + (b[i + 2] - 128)
        ELSE (b[i] - 240) * 262144 + (b[i + 1] - 128) * 4096
             + (b[i + 2] - 128) * 64 + (b[i + 3] - 128)

\* bytes.decode("utf-8"), strict, from byte i on: the text, or ok false for
\* UnicodeDecodeError.
RECURSIVE DecodeFrom(_, _)
DecodeFrom(b, i) ==
    IF i > Len(b) THEN [ok |-> TRUE, text |-> <<>>]
    ELSE IF ~WellFormedAt(b, i) THEN [ok |-> FALSE, text |-> <<>>]
    ELSE LET rest == DecodeFrom(b, i + SeqLen(b[i]))
         IN  IF rest.ok
             THEN [ok |-> TRUE, text |-> <<CodePointAt(b, i)>> \o rest.text]
             ELSE rest

Utf8Decode(b) == DecodeFrom(b, 1)

\* Decoding of text mode with universal newlines: CR LF and a lone CR are
\* read as LF.
RECURSIVE TranslateNewlines(_)
TranslateNewlines(b) ==
    IF b = <<>> THEN <<>>
    ELSE IF Head(b) = CR
         THEN IF Len(b) >= 2 /\ b[2] = LF
              THEN <<LF>> \o TranslateNewlines(SubSeq(b, 3, Len(b)))
              ELSE <<LF>> \o TranslateNewlines(Tail(b))
         ELSE <<Head(b)>> \o TranslateNewlines(Tail(b))

\* Path.read_text(): the text of a file's bytes, or UnicodeDecodeError.
read_text(bytes) ==
    LET d == Utf8Decode(bytes)
    IN  [raised |-> ~d.ok, text |-> TranslateNewlines(d.text)]

\* Path.write_text(text): the bytes the file holds afterwards, for a text
\* that can be encoded.
write_text(text) == Utf8Encode(Replace(text, LF, os_linesep))

\* str.replace(old, new)
RECURSIVE StrReplace(_, _, _)
StrReplace(s, old, new) ==
    IF s = <<>> THEN <<>>
    ELSE IF HasAt(s, 1, old)
         THEN new \o StrReplace(SubSeq(s, Len(old) + 1, Len(s)), old, new)
         ELSE <<Head(s)>> \o StrReplace(Tail(s), old, new)

-----------------------------------------------------------------------------
(* The regular expression __version__\s*=\s*["'](.+?)["']                  *)

\* "__version__"
VersionWord ==
    <<95, 95, 118, 101, 114, 115, 105, 111, 110, 95, 95>>

Quotes == {DQ, SQ}

\* The characters \s matches in a str pattern: those of str.isspace().
WhiteSpace ==
    {9, 10, 11, 12, 13, 28, 29, 30, 31, 32, 133, 160, 5760, 8192, 8193, 8194,
      8195, 8196, 8197, 8198, 8199, 8200, 8201, 8202, 8232, 8233, 8239, 8287,
      12288}

IsSpace(c) == c \in WhiteSpace

RECURSIVE SkipSpace(_, _)
SkipSpace(s, i) ==
    IF i <= Len(s) /\ IsSpace(s[i]) THEN SkipSpace(s, i + 1) ELSE i

NoMatch == [ok |-> FALSE, start |-> 0, end |-> 0, group |-> <<>>]

\* The match of the expression that starts at position i, if there is one.
\* The group is the shortest non-empty run without a line feed that a quote
\* follows.
MatchAt(s, i) ==
    IF ~HasAt(s, i, VersionWord) THEN NoMatch
    ELSE LET j == SkipSpace(s, i + Len(VersionWord))
         IN  IF ~(j <= Len(s) /\ s[j] = 61) THEN NoMatch   \* 61 is "="
             ELSE LET k == SkipSpace(s, j + 1)
                  IN  IF ~(k <= Len(s) /\ s[k] \in Quotes) THEN NoMatch
                      ELSE LET ends ==
                                   {m \in (k + 2)..Len(s) :
                                       /\ s[m] \in Quotes
                                       /\ \A q \in (k + 1)..(m - 1) : s[q] # LF}
                           IN  IF ends = {} THEN NoMatch
                               ELSE [ok |-> TRUE, start |-> i,
                                     end |-> Min(ends),
                                     group |-> SubSeq(s, k + 1, Min(ends) - 1)]

\* re.search(pattern, content)
re_search(content) ==
    LET starts == {i \in 1..Len(content) : MatchAt(content, i).ok}
    IN  IF starts = {} THEN NoMatch ELSE MatchAt(content, Min(starts))

\* parse_version, given the text read from the version file: the version,
\* or ValueError.
parse_version(content) ==
    LET match == re_search(content)
    IN  IF ~match.ok THEN [raised |-> TRUE, version |-> <<>>]
        ELSE [raised |-> FALSE, version |-> match.group]

-----------------------------------------------------------------------------
(* re.sub: the replacement string is a template.  A backslash and the      *)
(* character after it are one token.  \g<0> stands for the match, \1 and   *)
(* \g<1> for its group, \0 and three octal digits for a character, \a \b   *)
(* \f \n \r \t \v \\ for one character each; a backslash before another    *)
(* ASCII letter, a reference to a group above 1 and a malformed \g are     *)
(* re.error; \g<name> with an identifier is IndexError, the expression     *)
(* having no named group.                                                   *)

OctDigits == 48..55
DecDigits == 48..57
AsciiLetters == (65..90) \cup (97..122)

\* re._parser.ESCAPES: the letter after the backslash, and the character.
Escapes ==
    (97 :> 7) @@ (98 :> 8) @@ (102 :> 12) @@ (110 :> 10) @@ (114 :> 13)
    @@ (116 :> 9) @@ (118 :> 11) @@ (92 :> 92)

\* XID_Start above ASCII, as ranges of code points.
XidStartRanges ==
    {
    <<170, 170>>, <<181, 181>>, <<186, 186>>, <<192, 214>>, <<216, 246>>,
     <<248, 705>>, <<710, 721>>, <<736, 740>>, <<748, 748>>, <<750, 750>>,
     <<880, 884>>, <<886, 887>>, <<891, 893>>, <<895, 895>>, <<902, 902>>,
     <<904, 906>>, <<908, 908>>, <<910, 929>>, <<931, 1013>>, <<1015, 1153>>,
     <<1162, 1327>>, <<1329, 1366>>, <<1369, 1369>>, <<1376, 1416>>,
     <<1488, 1514>>, <<1519, 1522>>, <<1568, 1610>>, <<1646, 1647>>,
     <<1649, 1747>>, <<1749, 1749>>, <<1765, 1766>>, <<1774, 1775>>,
     <<1786, 1788>>, <<1791, 1791>>, <<1808, 1808>>, <<1810, 1839>>,
     <<1869, 1957>>, <<1969, 1969>>, <<1994, 2026>>, <<2036, 2037>>,
     <<2042, 2042>>, <<2048, 2069>>, <<2074, 2074>>, <<2084, 2084>>,
     <<2088, 2088>>, <<2112, 2136>>, <<2144, 2154>>, <<2160, 2183>>,
     <<2185, 2190>>, <<2208, 2249>>, <<2308, 2361>>, <<2365, 2365>>,
     <<2384, 2384>>, <<2392, 2401>>, <<2417, 2432>>, <<2437, 2444>>,
     <<2447, 2448>>, <<2451, 2472>>, <<2474, 2480>>, <<2482, 2482>>,
     <<2486, 2489>>, <<2493, 2493>>, <<2510, 2510>>, <<2524, 2525>>,
     <<2527, 2529>>, <<2544, 2545>>, <<2556, 2556>>, <<2565, 2570>>,
     <<2575, 2576>>, <<2579, 2600>>, <<2602, 2608>>, <<2610, 2611>>,
     <<2613, 2614>>, <<2616, 2617>>, <<2649, 2652>>, <<2654, 2654>>,
     <<2674, 2676>>, <<2693, 2701>>, <<2703, 2705>>, <<2707, 2728>>,
     <<2730, 2736>>, <<2738, 2739>>, <<2741, 2745>>, <<2749, 2749>>,
     <<2768, 2768>>, <<2784, 2785>>, <<2809, 2809>>, <<2821, 2828>>,
     <<2831, 2832>>, <<2835, 2856>>, <<2858, 2864>>, <<2866, 2867>>,
     <<2869, 2873>>, <<2877, 2877>>, <<2908, 2909>>, <<2911, 2913>>,
     <<2929, 2929>>, <<2947, 2947>>, <<2949, 2954>>, <<2958, 2960>>,
     <<2962, 2965>>, <<2969, 2970>>, <<2972, 2972>>, <<2974, 2975>>,
     <<2979, 2980>>, <<2984, 2986>>, <<2990, 3001>>, <<3024, 3024>>,
     <<3077, 3084>>, <<3086, 3088>>, <<3090, 3112>>, <<3114, 3129>>,
     <<3133, 3133>>, <<3160, 3162>>, <<3165, 3165>>, <<3168, 3169>>,
     <<3200, 3200>>, <<3205, 3212>>, <<3214, 3216>>, <<3218, 3240>>,
     <<3242, 3251>>, <<3253, 3257>>, <<3261, 3261>>, <<3293, 3294>>,
     <<3296, 3297>>, <<3313, 3314>>, <<3332, 3340>>, <<3342, 3344>>,
     <<3346, 3386>>, <<3389, 3389>>, <<3406, 3406>>, <<3412, 3414>>,
     <<3423, 3425>>, <<3450, 3455>>, <<3461, 3478>>, <<3482, 3505>>,
     <<3507, 3515>>, <<3517, 3517>>, <<3520, 3526>>, <<3585, 3632>>,
     <<3634, 3634>>, <<3648, 3654>>, <<3713, 3714>>, <<3716, 3716>>,
     <<3718, 3722>>, <<3724, 3747>>, <<3749, 3749>>, <<3751, 3760>>,
     <<3762, 3762>>, <<3773, 3773>>, <<3776, 3780>>, <<3782, 3782>>,
     <<3804, 3807>>, <<3840, 3840>>, <<3904, 3911>>, <<3913, 3948>>,
     <<3976, 3980>>, <<4096, 4138>>, <<4159, 4159>>, <<4176, 4181>>,
     <<4186, 4189>>, <<4193, 4193>>, <<4197, 4198>>, <<4206, 4208>>,
     <<4213, 4225>>, <<4238, 4238>>, <<4256, 4293>>, <<4295, 4295>>,
     <<4301, 4301>>, <<4304, 4346>>, <<4348, 4680>>, <<4682, 4685>>,
     <<4688, 4694>>, <<4696, 4696>>, <<4698, 4701>>, <<4704, 4744>>,
     <<4746, 4749>>, <<4752, 4784>>, <<4786, 4789>>, <<4792, 4798>>,
     <<4800, 4800>>, <<4802, 4805>>, <<4808, 4822>>, <<4824, 4880>>,
     <<4882, 4885>>, <<4888, 4954>>, <<4992, 5007>>, <<5024, 5109>>,
     <<5112, 5117>>, <<5121, 5740>>, <<5743, 5759>>, <<5761, 5786>>,
     <<5792, 5866>>, <<5870, 5880>>, <<5888, 5905>>, <<5919, 5937>>,
     <<5952, 5969>>, <<5984, 5996>>, <<5998, 6000>>, <<6016, 6067>>,
     <<6103, 6103>>, <<6108, 6108>>, <<6176, 6264>>, <<6272, 6312>>,
     <<6314, 6314>>, <<6320, 6389>>, <<6400, 6430>>, <<6480, 6509>>,
     <<6512, 6516>>, <<6528, 6571>>, <<6576, 6601>>, <<6656, 6678>>,
     <<6688, 6740>>, <<6823, 6823>>, <<6917, 6963>>, <<6981, 6988>>,
     <<7043, 7072>>, <<7086, 7087>>, <<7098, 7141>>, <<7168, 7203>>,
     <<7245, 7247>>, <<7258, 7293>>, <<7296, 7304>>, <<7312, 7354>>,
     <<7357, 7359>>, <<7401, 7404>>, <<7406, 7411>>, <<7413, 7414>>,
     <<7418, 7418>>, <<7424, 7615>>, <<7680, 7957>>, <<7960, 7965>>,
     <<7968, 8005>>, <<8008, 8013>>, <<8016, 8023>>, <<8025, 8025>>,
     <<8027, 8027>>, <<8029, 8029>>, <<8031, 8061>>, <<8064, 8116>>,
     <<8118, 8124>>, <<8126, 8126>>, <<8130, 8132>>, <<8134, 8140>>,
     <<8144, 8147>>, <<8150, 8155>>, <<8160, 8172>>, <<8178, 8180>>,
     <<8182, 8188>>, <<8305, 8305>>, <<8319, 8319>>, <<8336, 8348>>,
     <<8450, 8450>>, <<8455, 8455>>, <<8458, 8467>>, <<8469, 8469>>,
     <<8472, 8477>>, <<8484, 8484>>, <<8486, 8486>>, <<8488, 8488>>,
     <<8490, 8505>>, <<8508, 8511>>, <<8517, 8521>>, <<8526, 8526>>,
     <<8544, 8584>>, <<11264, 11492>>, <<11499, 11502>>, <<11506, 11507>>,
     <<11520, 11557>>, <<11559, 11559>>, <<11565, 11565>>, <<11568, 11623>>,
     <<11631, 11631>>, <<11648, 11670>>, <<11680, 11686>>, <<11688, 11694>>,
     <<11696, 11702>>, <<11704, 11710>>, <<11712, 11718>>, <<11720, 11726>>,
     <<11728, 11734>>, <<11736, 11742>>, <<12293, 12295>>, <<12321, 12329>>,
     <<12337, 12341>>, <<12344, 12348>>, <<12353, 12438>>, <<12445, 12447>>,
     <<12449, 12538>>, <<12540, 12543>>, <<12549, 12591>>, <<12593, 12686>>,
     <<12704, 12735>>, <<12784, 12799>>, <<13312, 19903>>, <<19968, 42124>>,
     <<42192, 42237>>, <<42240, 42508>>, <<42512, 42527>>, <<42538, 42539>>,
     <<42560, 42606>>, <<42623, 42653>>, <<42656, 42735>>, <<42775, 42783>>,
     <<42786, 42888>>, <<42891, 42954>>, <<42960, 42961>>, <<42963, 42963>>,
     <<42965, 42969>>, <<42994, 43009>>, <<43011, 43013>>, <<43015, 43018>>,
     <<43020, 43042>>, <<43072, 43123>>, <<43138, 43187>>, <<43250, 43255>>,
     <<43259, 43259>>, <<43261, 43262>>, <<43274, 43301>>, <<43312, 43334>>,
     <<43360, 43388>>, <<43396, 43442>>, <<43471, 43471>>, <<43488, 43492>>,
     <<43494, 43503>>, <<43514, 43518>>, <<43520, 43560>>, <<43584, 43586>>,
     <<43588, 43595>>, <<43616, 43638>>, <<43642, 43642>>, <<43646, 43695>>,
     <<43697, 43697>>, <<43701, 43702>>, <<43705, 43709>>, <<43712, 43712>>,
     <<43714, 43714>>, <<43739, 43741>>, <<43744, 43754>>, <<43762, 43764>>,
     <<43777, 43782>>, <<43785, 43790>>, <<43793, 43798>>, <<43808, 43814>>,
     <<43816, 43822>>, <<43824, 43866>>, <<43868, 43881>>, <<43888, 44002>>,
     <<44032, 55203>>, <<55216, 55238>>, <<55243, 55291>>, <<63744, 64109>>,
     <<64112, 64217>>, <<64256, 64262>>, <<64275, 64279>>, <<64285, 64285>>,
     <<64287, 64296>>, <<64298, 64310>>, <<64312, 64316>>, <<64318, 64318>>,
     <<64320, 64321>>, <<64323, 64324>>, <<64326, 64433>>, <<64467, 64605>>,
     <<64612, 64829>>, <<64848, 64911>>, <<64914, 64967>>, <<65008, 65017>>,
     <<65137, 65137>>, <<65139, 65139>>, <<65143, 65143>>, <<65145, 65145>>,
     <<65147, 65147>>, <<65149, 65149>>, <<65151, 65276>>, <<65313, 65338>>,
     <<65345, 65370>>, <<65382, 65437>>, <<65440, 65470>>, <<65474, 65479>>,
     <<65482, 65487>>, <<65490, 65495>>, <<65498, 65500>>, <<65536, 65547>>,
     <<65549, 65574>>, <<65576, 65594>>, <<65596, 65597>>, <<65599, 65613>>,
     <<65616, 65629>>, <<65664, 65786>>, <<65856, 65908>>, <<66176, 66204>>,
     <<66208, 66256>>, <<66304, 66335>>, <<66349, 66378>>, <<66384, 66421>>,
     <<66432, 66461>>, <<66464, 66499>>, <<66504, 66511>>, <<66513, 66517>>,
     <<66560, 66717>>, <<66736, 66771>>, <<66776, 66811>>, <<66816, 66855>>,
     <<66864, 66915>>, <<66928, 66938>>, <<66940, 66954>>, <<66956, 66962>>,
     <<66964, 66965>>, <<66967, 66977>>, <<66979, 66993>>, <<66995, 67001>>,
     <<67003, 67004>>, <<67072, 67382>>, <<67392, 67413>>, <<67424, 67431>>,
     <<67456, 67461>>, <<67463, 67504>>, <<67506, 67514>>, <<67584, 67589>>,
     <<67592, 67592>>, <<67594, 67637>>, <<67639, 67640>>, <<67644, 67644>>,
     <<67647, 67669>>, <<67680, 67702>>, <<67712, 67742>>, <<67808, 67826>>,
     <<67828, 67829>>, <<67840, 67861>>, <<67872, 67897>>, <<67968, 68023>>,
     <<68030, 68031>>, <<68096, 68096>>, <<68112, 68115>>, <<68117, 68119>>,
     <<68121, 68149>>, <<68192, 68220>>, <<68224, 68252>>, <<68288, 68295>>,
     <<68297, 68324>>, <<68352, 68405>>, <<68416, 68437>>, <<68448, 68466>>,
     <<68480, 68497>>, <<68608, 68680>>, <<68736, 68786>>, <<68800, 68850>>,
     <<68864, 68899>>, <<69248, 69289>>, <<69296, 69297>>, <<69376, 69404>>,
     <<69415, 69415>>, <<69424, 69445>>, <<69488, 69505>>, <<69552, 69572>>,
     <<69600, 69622>>, <<69635, 69687>>, <<69745, 69746>>, <<69749, 69749>>,
     <<69763, 69807>>, <<69840, 69864>>, <<69891, 69926>>, <<69956, 69956>>,
     <<69959, 69959>>, <<69968, 70002>>, <<70006, 70006>>, <<70019, 70066>>,
     <<70081, 70084>>, <<70106, 70106>>, <<70108, 70108>>, <<70144, 70161>>,
     <<70163, 70187>>, <<70272, 70278>>, <<70280, 70280>>, <<70282, 70285>>,
     <<70287, 70301>>, <<70303, 70312>>, <<70320, 70366>>, <<70405, 70412>>,
     <<70415, 70416>>, <<70419, 70440>>, <<70442, 70448>>, <<70450, 70451>>,
     <<70453, 70457>>, <<70461, 70461>>, <<70480, 70480>>, <<70493, 70497>>,
     <<70656, 70708>>, <<70727, 70730>>, <<70751, 70753>>, <<70784, 70831>>,
     <<70852, 70853>>, <<70855, 70855>>, <<71040, 71086>>, <<71128, 71131>>,
     <<71168, 71215>>, <<71236, 71236>>, <<71296, 71338>>, <<71352, 71352>>,
     <<71424, 71450>>, <<71488, 71494>>, <<71680, 71723>>, <<71840, 71903>>,
     <<71935, 71942>>, <<71945, 71945>>, <<71948, 71955>>, <<71957, 71958>>,
     <<71960, 71983>>, <<71999, 71999>>, <<72001, 72001>>, <<72096, 72103>>,
     <<72106, 72144>>, <<72161, 72161>>, <<72163, 72163>>, <<72192, 72192>>,
     <<72203, 72242>>, <<72250, 72250>>, <<72272, 72272>>, <<72284, 72329>>,
     <<72349, 72349>>, <<72368, 72440>>, <<72704, 72712>>, <<72714, 72750>>,
     <<72768, 72768>>, <<72818, 72847>>, <<72960, 72966>>, <<72968, 72969>>,
     <<72971, 73008>>, <<73030, 73030>>, <<73056, 73061>>, <<73063, 73064>>,
     <<73066, 73097>>, <<73112, 73112>>, <<73440, 73458>>, <<73648, 73648>>,
     <<73728, 74649>>, <<74752, 74862>>, <<74880, 75075>>, <<77712, 77808>>,
     <<77824, 78894>>, <<82944, 83526>>, <<92160, 92728>>, <<92736, 92766>>,
     <<92784, 92862>>, <<92880, 92909>>, <<92928, 92975>>, <<92992, 92995>>,
     <<93027, 93047>>, <<93053, 93071>>, <<93760, 93823>>, <<93952, 94026>>,
     <<94032, 94032>>, <<94099, 94111>>, <<94176, 94177>>, <<94179, 94179>>,
     <<94208, 100343>>, <<100352, 101589>>, <<101632, 101640>>,
     <<110576, 110579>>, <<110581, 110587>>, <<110589, 110590>>,
     <<110592, 110882>>, <<110928, 110930>>, <<110948, 110951>>,
     <<110960, 111355>>, <<113664, 113770>>, <<113776, 113788>>,
     <<113792, 113800>>, <<113808, 113817>>, <<119808, 119892>>,
     <<119894, 119964>>, <<119966, 119967>>, <<119970, 119970>>,
     <<119973, 119974>>, <<119977, 119980>>, <<119982, 119993>>,
     <<119995, 119995>>, <<119997, 120003>>, <<120005, 120069>>,
     <<120071, 120074>>, <<120077, 120084>>, <<120086, 120092>>,
     <<120094, 120121>>, <<120123, 120126>>, <<120128, 120132>>,
     <<120134, 120134>>, <<120138, 120144>>, <<120146, 120485>>,
     <<120488, 120512>>, <<120514, 120538>>, <<120540, 120570>>,
     <<120572, 120596>>, <<120598, 120628>>, <<120630, 120654>>,
     <<120656, 120686>>, <<120688, 120712>>, <<120714, 120744>>,
     <<120746, 120770>>, <<120772, 120779>>, <<122624, 122654>>,
     <<123136, 123180>>, <<123191, 123197>>, <<123214, 123214>>,
     <<123536, 123565>>, <<123584, 123627>>, <<124896, 124902>>,
     <<124904, 124907>>, <<124909, 124910>>, <<124912, 124926>>,
     <<124928, 125124>>, <<125184, 125251>>, <<125259, 125259>>,
     <<126464, 126467>>, <<126469, 126495>>, <<126497, 126498>>,
     <<126500, 126500>>, <<126503, 126503>>, <<126505, 126514>>,
     <<126516, 126519>>, <<126521, 126521>>, <<126523, 126523>>,
     <<126530, 126530>>, <<126535, 126535>>, <<126537, 126537>>,
     <<126539, 126539>>, <<126541, 126543>>, <<126545, 126546>>,
     <<126548, 126548>>, <<126551, 126551>>, <<126553, 126553>>,
     <<126555, 126555>>, <<126557, 126557>>, <<126559, 126559>>,
     <<126561, 126562>>, <<126564, 126564>>, <<126567, 126570>>,
     <<126572, 126578>>, <<126580, 126583>>, <<126585, 126588>>,
     <<126590, 126590>>, <<126592, 126601>>, <<126603, 126619>>,
     <<126625, 126627>>, <<126629, 126633>>, <<126635, 126651>>,
     <<131072, 173791>>, <<173824, 177976>>, <<177984, 178205>>,
     <<178208, 183969>>, <<183984, 191456>>, <<194560, 195101>>,
     <<196608, 201546>>
    }

\* XID_Continue above ASCII that is not XID_Start, as ranges of code points.
XidContinueOnlyRanges ==
    {
    <<183, 183>>, <<768, 879>>, <<903, 903>>, <<1155, 1159>>, <<1425, 1469>>,
     <<1471, 1471>>, <<1473, 1474>>, <<1476, 1477>>, <<1479, 1479>>,
     <<1552, 1562>>, <<1611, 1641>>, <<1648, 1648>>, <<1750, 1756>>,
     <<1759, 1764>>, <<1767, 1768>>, <<1770, 1773>>, <<1776, 1785>>,
     <<1809, 1809>>, <<1840, 1866>>, <<1958, 1968>>, <<1984, 1993>>,
     <<2027, 2035>>, <<2045, 2045>>, <<2070, 2073>>, <<2075, 2083>>,
     <<2085, 2087>>, <<2089, 2093>>, <<2137, 2139>>, <<2200, 2207>>,
     <<2250, 2273>>, <<2275, 2307>>, <<2362, 2364>>, <<2366, 2383>>,
     <<2385, 2391>>, <<2402, 2403>>, <<2406, 2415>>, <<2433, 2435>>,
     <<2492, 2492>>, <<2494, 2500>>, <<2503, 2504>>, <<2507, 2509>>,
     <<2519, 2519>>, <<2530, 2531>>, <<2534, 2543>>, <<2558, 2558>>,
     <<2561, 2563>>, <<2620, 2620>>, <<2622, 2626>>, <<2631, 2632>>,
     <<2635, 2637>>, <<2641, 2641>>, <<2662, 2673>>, <<2677, 2677>>,
     <<2689, 2691>>, <<2748, 2748>>, <<2750, 2757>>, <<2759, 2761>>,
     <<2763, 2765>>, <<2786, 2787>>, <<2790, 2799>>, <<2810, 2815>>,
     <<2817, 2819>>, <<2876, 2876>>, <<2878, 2884>>, <<2887, 2888>>,
     <<2891, 2893>>, <<2901, 2903>>, <<2914, 2915>>, <<2918, 2927>>,
     <<2946, 2946>>, <<3006, 3010>>, <<3014, 3016>>, <<3018, 3021>>,
     <<3031, 3031>>, <<3046, 3055>>, <<3072, 3076>>, <<3132, 3132>>,
     <<3134, 3140>>, <<3142, 3144>>, <<3146, 3149>>, <<3157, 3158>>,
     <<3170, 3171>>, <<3174, 3183>>, <<3201, 3203>>, <<3260, 3260>>,
     <<3262, 3268>>, <<3270, 3272>>, <<3274, 3277>>, <<3285, 3286>>,
     <<3298, 3299>>, <<3302, 3311>>, <<3328, 3331>>, <<3387, 3388>>,
     <<3390, 3396>>, <<3398, 3400>>, <<3402, 3405>>, <<3415, 3415>>,
     <<3426, 3427>>, <<3430, 3439>>, <<3457, 3459>>, <<3530, 3530>>,
     <<3535, 3540>>, <<3542, 3542>>, <<3544, 3551>>, <<3558, 3567>>,
     <<3570, 3571>>, <<3633, 3633>>, <<3635, 3642>>, <<3655, 3662>>,
     <<3664, 3673>>, <<3761, 3761>>, <<3763, 3772>>, <<3784, 3789>>,
     <<3792, 3801>>, <<3864, 3865>>, <<3872, 3881>>, <<3893, 3893>>,
     <<3895, 3895>>, <<3897, 3897>>, <<3902, 3903>>, <<3953, 3972>>,
     <<3974, 3975>>, <<3981, 3991>>, <<3993, 4028>>, <<4038, 4038>>,
     <<4139, 4158>>, <<4160, 4169>>, <<4182, 4185>>, <<4190, 4192>>,
     <<4194, 4196>>, <<4199, 4205>>, <<4209, 4212>>, <<4226, 4237>>,
     <<4239, 4253>>, <<4957, 4959>>, <<4969, 4977>>, <<5906, 5909>>,
     <<5938, 5940>>, <<5970, 5971>>, <<6002, 6003>>, <<6068, 6099>>,
     <<6109, 6109>>, <<6112, 6121>>, <<6155, 6157>>, <<6159, 6169>>,
     <<6313, 6313>>, <<6432, 6443>>, <<6448, 6459>>, <<6470, 6479>>,
     <<6608, 6618>>, <<6679, 6683>>, <<6741, 6750>>, <<6752, 6780>>,
     <<6783, 6793>>, <<6800, 6809>>, <<6832, 6845>>, <<6847, 6862>>,
     <<6912, 6916>>, <<6964, 6980>>, <<6992, 7001>>, <<7019, 7027>>,
     <<7040, 7042>>, <<7073, 7085>>, <<7088, 7097>>, <<7142, 7155>>,
     <<7204, 7223>>, <<7232, 7241>>, <<7248, 7257>>, <<7376, 7378>>,
     <<7380, 7400>>, <<7405, 7405>>, <<7412, 7412>>, <<7415, 7417>>,
     <<7616, 7679>>, <<8255, 8256>>, <<8276, 8276>>, <<8400, 8412>>,
     <<8417, 8417>>, <<8421, 8432>>, <<11503, 11505>>, <<11647, 11647>>,
     <<11744, 11775>>, <<12330, 12335>>, <<12441, 12442>>, <<42528, 42537>>,
     <<42607, 42607>>, <<42612, 42621>>, <<42654, 42655>>, <<42736, 42737>>,
     <<43010, 43010>>, <<43014, 43014>>, <<43019, 43019>>, <<43043, 43047>>,
     <<43052, 43052>>, <<43136, 43137>>, <<43188, 43205>>, <<43216, 43225>>,
     <<43232, 43249>>, <<43263, 43273>>, <<43302, 43309>>, <<43335, 43347>>,
     <<43392, 43395>>, <<43443, 43456>>, <<43472, 43481>>, <<43493, 43493>>,
     <<43504, 43513>>, <<43561, 43574>>, <<43587, 43587>>, <<43596, 43597>>,
     <<43600, 43609>>, <<43643, 43645>>, <<43696, 43696>>, <<43698, 43700>>,
     <<43703, 43704>>, <<43710, 43711>>, <<43713, 43713>>, <<43755, 43759>>,
     <<43765, 43766>>, <<44003, 44010>>, <<44012, 44013>>, <<44016, 44025>>,
     <<64286, 64286>>, <<65024, 65039>>, <<65056, 65071>>, <<65075, 65076>>,
     <<65101, 65103>>, <<65296, 65305>>, <<65343, 65343>>, <<65438, 65439>>,
     <<66045, 66045>>, <<66272, 66272>>, <<66422, 66426>>, <<66720, 66729>>,
     <<68097, 68099>>, <<68101, 68102>>, <<68108, 68111>>, <<68152, 68154>>,
     <<68159, 68159>>, <<68325, 68326>>, <<68900, 68903>>, <<68912, 68921>>,
     <<69291, 69292>>, <<69446, 69456>>, <<69506, 69509>>, <<69632, 69634>>,
     <<69688, 69702>>, <<69734, 69744>>, <<69747, 69748>>, <<69759, 69762>>,
     <<69808, 69818>>, <<69826, 69826>>, <<69872, 69881>>, <<69888, 69890>>,
     <<69927, 69940>>, <<69942, 69951>>, <<69957, 69958>>, <<70003, 70003>>,
     <<70016, 70018>>, <<70067, 70080>>, <<70089, 70092>>, <<70094, 70105>>,
     <<70188, 70199>>, <<70206, 70206>>, <<70367, 70378>>, <<70384, 70393>>,
     <<70400, 70403>>, <<70459, 70460>>, <<70462, 70468>>, <<70471, 70472>>,
     <<70475, 70477>>, <<70487, 70487>>, <<70498, 70499>>, <<70502, 70508>>,
     <<70512, 70516>>, <<70709, 70726>>, <<70736, 70745>>, <<70750, 70750>>,
     <<70832, 70851>>, <<70864, 70873>>, <<71087, 71093>>, <<71096, 71104>>,
     <<71132, 71133>>, <<71216, 71232>>, <<71248, 71257>>, <<71339, 71351>>,
     <<71360, 71369>>, <<71453, 71467>>, <<71472, 71481>>, <<71724, 71738>>,
     <<71904, 71913>>, <<71984, 71989>>, <<71991, 71992>>, <<71995, 71998>>,
     <<72000, 72000>>, <<72002, 72003>>, <<72016, 72025>>, <<72145, 72151>>,
     <<72154, 72160>>, <<72164, 72164>>, <<72193, 72202>>, <<72243, 72249>>,
     <<72251, 72254>>, <<72263, 72263>>, <<72273, 72283>>, <<72330, 72345>>,
     <<72751, 72758>>, <<72760, 72767>>, <<72784, 72793>>, <<72850, 72871>>,
     <<72873, 72886>>, <<73009, 73014>>, <<73018, 73018>>, <<73020, 73021>>,
     <<73023, 73029>>, <<73031, 73031>>, <<73040, 73049>>, <<73098, 73102>>,
     <<73104, 73105>>, <<73107, 73111>>, <<73120, 73129>>, <<73459, 73462>>,
     <<92768, 92777>>, <<92864, 92873>>, <<92912, 92916>>, <<92976, 92982>>,
     <<93008, 93017>>, <<94031, 94031>>, <<94033, 94087>>, <<94095, 94098>>,
     <<94180, 94180>>, <<94192, 94193>>, <<113821, 113822>>,
     <<118528, 118573>>, <<118576, 118598>>, <<119141, 119145>>,
     <<119149, 119154>>, <<119163, 119170>>, <<119173, 119179>>,
     <<119210, 119213>>, <<119362, 119364>>, <<120782, 120831>>,
     <<121344, 121398>>, <<121403, 121452>>, <<121461, 121461>>,
     <<121476, 121476>>, <<121499, 121503>>, <<121505, 121519>>,
     <<122880, 122886>>, <<122888, 122904>>, <<122907, 122913>>,
     <<122915, 122916>>, <<122918, 122922>>, <<123184, 123190>>,
     <<123200, 123209>>, <<123566, 123566>>, <<123628, 123641>>,
     <<125136, 125142>>, <<125252, 125258>>, <<125264, 125273>>,
     <<130032, 130041>>, <<917760, 917999>>
    }

\* The digits 0 of the decimal digit sets above ASCII; 1 to 9 follow each.
DecimalZeros ==
    {
    1632, 1776, 1984, 2406, 2534, 2662, 2790, 2918, 3046, 3174, 3302, 3430,
     3558, 3664, 3792, 3872, 4160, 4240, 6112, 6160, 6470, 6608, 6784, 6800,
     6992, 7088, 7232, 7248, 42528, 43216, 43264, 43472, 43504, 43600, 44016,
     65296, 66720, 68912, 69734, 69872, 69942, 70096, 70384, 70736, 70864,
     71248, 71360, 71472, 71904, 72016, 72784, 73040, 73120, 92768, 92864,
     93008, 120782, 120792, 120802, 120812, 120822, 123200, 123632, 125264,
     130032
    }

InRanges(c, ranges) == \E r \in ranges : r[1] <= c /\ c <= r[2]

IsIdStart(c) ==
    IF c < 128 THEN c \in AsciiLetters \cup {95}
    ELSE InRanges(c, XidStartRanges)

IsIdContinue(c) ==
    IF c < 128 THEN c \in AsciiLetters \cup DecDigits \cup {95}
    ELSE InRanges(c, XidStartRanges) \/ InRanges(c, XidContinueOnlyRanges)

\* str.isidentifier()
isidentifier(name) ==
    /\ name # <<>>
    /\ IsIdStart(name[1])
    /\ \A i \in 2..Len(name) : IsIdContinue(name[i])

\* The value of a decimal digit, -1 for any other character.
DecimalValue(c) ==
    IF c \in DecDigits THEN c - 48
    ELSE IF \E z \in DecimalZeros : z <= c /\ c <= z + 9
    THEN c - (CHOOSE z \in DecimalZeros : z <= c /\ c <= z + 9)
    ELSE -1

\* The white space int() strips: the ASCII characters of isspace() in C,
\* and the white space above ASCII.
IntSpace(c) == c \in {TAB, LF, VT, FF, CR, 32} \/ (c >= 128 /\ IsSpace(c))

RECURSIVE LStripInt(_)
LStripInt(s) ==
    IF s # <<>> /\ IntSpace(Head(s)) THEN LStripInt(Tail(s)) ELSE s

RECURSIVE RStripInt(_)
RStripInt(s) ==
    IF s # <<>> /\ IntSpace(s[Len(s)])
    THEN RStripInt(SubSeq(s, 1, Len(s) - 1))
    ELSE s

\* The value of digits, single underscores allowed between them, given the
\* value v of the digits before; values above 2 are given as 2, and -1
\* says the digits are malformed.  after_digit says a digit came last.
RECURSIVE DigitsValue(_, _, _)
DigitsValue(s, v, after_digit) ==
    IF s = <<>> THEN (IF after_digit THEN v ELSE -1)
    ELSE IF Head(s) = 95
         THEN IF after_digit THEN DigitsValue(Tail(s), v, FALSE) ELSE -1
         ELSE IF DecimalValue(Head(s)) < 0 THEN -1
         ELSE LET w == 10 * v + DecimalValue(Head(s))
              IN  DigitsValue(Tail(s), IF w > 2 THEN 2 ELSE w, TRUE)

\* int(name) for a group name: -1 when it raises ValueError or the value
\* is negative, else the value, values above 2 given as 2.
int(name) ==
    LET s == RStripInt(LStripInt(name))
        signed == s # <<>> /\ s[1] \in {43, 45}      \* "+" and "-"
        v == DigitsValue(IF signed THEN Tail(s) ELSE s, 0, FALSE)
    IN  IF signed /\ s[1] = 45 /\ v > 0 THEN -1 ELSE v

\* The group a name between \g< and > refers to, or the error raised.
GroupIndex(name) ==
    IF isidentifier(name) THEN [error |-> "IndexError", index |-> 0]
    ELSE IF int(name) \in {0, 1} THEN [error |-> "none", index |-> int(name)]
    ELSE [error |-> "re.error", index |-> 0]

\* A single character c, not a backslash, is the token at position p.
TokenIs(s, p, c) == p <= Len(s) /\ s[p] = c

TokenIn(s, p, S) == p <= Len(s) /\ s[p] \in S

\* The position of the token ">" that ends the group name starting at p;
\* 0 when the template ends first.
RECURSIVE NameEnd(_, _)
NameEnd(s, p) ==
    IF p > Len(s) THEN 0
    ELSE IF s[p] = Backslash
         THEN IF p = Len(s) THEN 0 ELSE NameEnd(s, p + 2)
         ELSE IF s[p] = 62 THEN p                     \* 62 is ">"
         ELSE NameEnd(s, p + 1)

TemplateError(kind) == [error |-> kind, parts |-> <<>>]

\* The parts of a parsed template: a literal, or a reference to a group.
Literal(chars) == [index |-> -1, lit |-> chars]
GroupRef(k)    == [index |-> k, lit |-> <<>>]

Cons(part, rest) ==
    IF rest.error # "none" THEN rest
    ELSE [error |-> "none", parts |-> <<part>> \o rest.parts]

\* re._parser.parse_template, from the token at position p on.  The
\* tokenizer reads one token ahead, so a lone backslash at the end is an
\* error as soon as the token before it is taken.
RECURSIVE ParseFrom(_, _)
ParseFrom(s, p) ==
    IF p > Len(s) THEN [error |-> "none", parts |-> <<>>]
    ELSE IF s[p] # Backslash
    THEN Cons(Literal(<<s[p]>>), ParseFrom(s, p + 1))
    ELSE IF p = Len(s) THEN TemplateError("re.error")
    ELSE LET c == s[p + 1]
             q == p + 2
         IN  IF c = 103                               \* 103 is "g"
             THEN IF ~TokenIs(s, q, 60)               \* 60 is "<"
                  THEN TemplateError("re.error")
                  ELSE LET e == NameEnd(s, q + 1)
                           name == SubSeq(s, q + 1, e - 1)
                           g == GroupIndex(name)
                       IN  IF \/ e = 0
                              \/ name = <<>>
                              \/ (e + 1 = Len(s) /\ s[e + 1] = Backslash)
                           THEN TemplateError("re.error")
                           ELSE IF g.error # "none"
                           THEN TemplateError(g.error)
                           ELSE Cons(GroupRef(g.index), ParseFrom(s, e + 1))
             ELSE IF c = 48
             THEN LET n == IF ~TokenIn(s, q, OctDigits) THEN 0
                           ELSE IF TokenIn(s, q + 1, OctDigits) THEN 2
                           ELSE 1
                      v == IF n = 0 THEN 0
                           ELSE IF n = 1 THEN s[q] - 48
                           ELSE (s[q] - 48) * 8 + (s[q + 1] - 48)
                  IN  Cons(Literal(<<v % 256>>), ParseFrom(s, q + n))
             ELSE IF c \in DecDigits
             THEN IF TokenIn(s, q, DecDigits)
                  THEN IF /\ c \in OctDigits
                          /\ s[q] \in OctDigits
                          /\ TokenIn(s, q + 1, OctDigits)
                       THEN LET v == (c - 48) * 64 + (s[q] - 48) * 8
                                     + (s[q + 1] - 48)
                            IN  IF v > 255 THEN TemplateError("re.error")
                                ELSE Cons(Literal(<<v>>),
                                          ParseFrom(s, q + 2))
                       ELSE TemplateError("re.error")
                  ELSE IF c = 49 THEN Cons(GroupRef(1), ParseFrom(s, q))
                  ELSE TemplateError("re.error")
             ELSE IF c \in DOMAIN Escapes
             THEN Cons(Literal(<<Escapes[c]>>), ParseFrom(s, q))
             ELSE IF c \in AsciiLetters THEN TemplateError("re.error")
             ELSE Cons(Literal(<<Backslash, c>>), ParseFrom(s, q))

parse_template(source) == ParseFrom(source, 1)

\* The expansion of a parsed template for one match.
RECURSIVE Expand(_, _, _)
Expand(parts, whole, group) ==
    IF parts = <<>> THEN <<>>
    ELSE (IF Head(parts).index = -1 THEN Head(parts).lit
          ELSE IF Head(parts).index = 0 THEN whole
          ELSE group)
         \o Expand(Tail(parts), whole, group)

\* Every match of the expression in content replaced, left to right.
RECURSIVE SubAll(_, _)
SubAll(parts, content) ==
    LET m == re_search(content)
    IN  IF ~m.ok THEN content
        ELSE SubSeq(content, 1, m.start - 1)
             \o Expand(parts, SubSeq(content, m.start, m.end), m.group)
             \o SubAll(parts, SubSeq(content, m.end + 1, Len(content)))

\* re.sub(pattern, repl, content): the new text, or the error the template
\* raises, which it raises also when nothing matches.
re_sub(repl, content) ==
    LET t == parse_template(repl)
    IN  IF t.error # "none" THEN [raised |-> t.error, value |-> <<>>]
        ELSE [raised |-> "none", value |-> SubAll(t.parts, content)]

-----------------------------------------------------------------------------
(* nightly_overrides: the rewriting of the two files.                      *)

\* "0123456789"
DigitChars == <<48, 49, 50, 51, 52, 53, 54, 55, 56, 57>>

\* A number in decimal, zero-padded to a width.
RECURSIVE Digits(_, _)
Digits(n, width) ==
    IF width = 0 THEN <<>>
    ELSE Digits(n \div 10, width - 1) \o <<DigitChars[(n % 10) + 1]>>

\* A number in decimal.
RECURSIVE Decimal(_)
Decimal(n) ==
    IF n < 10 THEN <<DigitChars[n + 1]>>
    ELSE Decimal(n \div 10) \o <<DigitChars[(n % 10) + 1]>>

\* datetime.strftime("%Y%m%d%H"); the C library does not pad the year.
strftime(now) ==
    Decimal(now.year) \o Digits(now.month, 2) \o Digits(now.day, 2)
    \o Digits(now.hour, 2)

\* ".dev"
DevInfix ==
    <<46, 100, 101, 118>>

\* "__version__ = " and a double quote
VersionDeclPrefix ==
    <<95, 95, 118, 101, 114, 115, 105, 111, 110, 95, 95, 32, 61, 32, DQ>>

\* name="keras-cv"
NameLiteral ==
    <<110, 97, 109, 101, 61, DQ, 107, 101, 114, 97, 115, 45, 99, 118, DQ>>

\* name="keras-cv-nightly"
NightlyNameLiteral ==
    <<110, 97, 109, 101, 61, DQ, 107, 101, 114, 97, 115, 45, 99, 118, 45,
      110, 105, 103, 104, 116, 108, 121, DQ>>

\* Line 43
UpdatedVersion(version, now) == version \o DevInfix \o strftime(now)

\* Lines 44-48: the text for the version file, or the error of re.sub.
NewVersionContent(original_version_content, updated_version) ==
    re_sub(VersionDeclPrefix \o updated_version \o <<DQ>>,
           original_version_content)

\* Lines 51-53: the text written to setup.py.
NewSetupContent(original_setup_content) ==
    StrReplace(original_setup_content, NameLiteral, NightlyNameLiteral)

\* What a write_text call can do to a file.  It returns and the file holds
\* the new bytes; or it raises OSError, and the file holds its old bytes
\* (it could not be opened) or a proper prefix of the new bytes, which may
\* be empty (it was truncated, and the write failed part of the way).  For
\* a text that cannot be encoded, the file is opened and truncated and the
\* call raises UnicodeEncodeError, if it does not raise OSError before.
WriteResults(old_bytes, text) ==
    IF CanEncode(text)
    THEN LET new_bytes == write_text(text)
         IN  {[raised |-> "none", file |-> new_bytes],
              [raised |-> "OSError", file |-> old_bytes]}
             \cup {[raised |-> "OSError", file |-> SubSeq(new_bytes, 1, k)] :
                      k \in 0..(Len(new_bytes) - 1)}
    ELSE {[raised |-> "OSError", file |-> old_bytes],
          [raised |-> "UnicodeEncodeError", file |-> <<>>]}

Raised(type) == [type |-> type, returncode |-> 0]

OSError == Raised("OSError")

-----------------------------------------------------------------------------
(* locate_wheel                                                            *)

WhlSuffix ==
    <<46, 119, 104, 108>>   \* ".whl"

NoWheel == [name |-> <<>>, mtime |-> 0, data |-> "none"]

\* wheels_path.glob("*.whl"), as a set
Glob(dir) == {f \in dir.files : EndsWith(f.name, WhlSuffix)}

\* The orders in which a directory listing can give a set of files.
Listings(S) ==
    {f \in [1..Cardinality(S) -> S] :
        \A i, j \in 1..Cardinality(S) : i # j => f[i] # f[j]}

Without(seq, i) == SubSeq(seq, 1, i - 1) \o SubSeq(seq, i + 1, Len(seq))

\* A faulty variant, for comparison: oldest first.
RECURSIVE SortedOldestFirst(_)
SortedOldestFirst(listing) ==
    IF listing = <<>> THEN <<>>
    ELSE LET idx == {i \in 1..Len(listing) :
                       \A j \in 1..Len(listing) :
                           listing[i].mtime <= listing[j].mtime}
             i == Min(idx)
         IN  <<listing[i]>> \o SortedOldestFirst(Without(listing, i))

\* sorted(..., key=mtime, reverse=True): newest first; the sort is stable,
\* so files of equal time keep the order of the listing.
RECURSIVE SortedNewestFirst(_)
SortedNewestFirst(listing) ==
    IF listing = <<>> THEN <<>>
    ELSE LET idx == {i \in 1..Len(listing) :
                       \A j \in 1..Len(listing) :
                           listing[i].mtime >= listing[j].mtime}
             i == Min(idx)
         IN  <<listing[i]>> \o SortedNewestFirst(Without(listing, i))

\* locate_wheel(wheels_path, version); listing is the order in which glob
\* yields the directory's wheels.
locate_wheel(dir, version, listing) ==
    IF ~dir.exists THEN NoWheel
    ELSE LET sorted == SortedNewestFirst(listing)
             hits == {i \in 1..Len(sorted) : Contains(sorted[i].name, version)}
         IN  IF hits # {} THEN sorted[Min(hits)]
             ELSE IF sorted # <<>> THEN sorted[1]
             ELSE NoWheel

-----------------------------------------------------------------------------
(* The inputs of the release builder.  The two files are given as bytes.  *)

\* __version__ = "1.2.3" and a line feed
VersionLf ==
    <<95, 95, 118, 101, 114, 115, 105, 111, 110, 95, 95, 32, 61, 32, DQ, 49,
      46, 50, 46, 51, DQ, LF>>

\* __version__ = '1.2.3' and CR LF
VersionCrLf ==
    <<95, 95, 118, 101, 114, 115, 105, 111, 110, 95, 95, 32, 61, 32, SQ, 49,
      46, 50, 46, 51, SQ, CR, LF>>

\* __version__<TAB>=<U+00A0>"1.2.3" and a line feed; U+00A0 is two bytes
VersionTabs ==
    <<95, 95, 118, 101, 114, 115, 105, 111, 110, 95, 95, TAB, 61, 194, 160,
      DQ, 49, 46, 50, 46, 51, DQ, LF>>

\* __version__="1\1", nothing after it: the version holds a backslash
VersionBackslash ==
    <<95, 95, 118, 101, 114, 115, 105, 111, 110, 95, 95, 61, DQ, 49, 92, 49,
      DQ>>

\* __version__ = "1\d" and a line feed: the version holds \d
VersionBadEscape ==
    <<95, 95, 118, 101, 114, 115, 105, 111, 110, 95, 95, 32, 61, 32, DQ, 49,
      92, 100, DQ, LF>>

\* version = "1.2.3" and a line feed: no declaration of __version__
VersionMissing ==
    <<118, 101, 114, 115, 105, 111, 110, 32, 61, 32, DQ, 49, 46, 50, 46, 51,
      DQ, LF>>

\* __version__ = "1.2.3", the byte A0 and a line feed: not UTF-8
VersionNotUtf8 ==
    <<95, 95, 118, 101, 114, 115, 105, 111, 110, 95, 95, 32, 61, 32, DQ, 49,
      46, 50, 46, 51, DQ, 160, LF>>

\* name="keras-cv" and a line feed
SetupLf ==
    <<110, 97, 109, 101, 61, DQ, 107, 101, 114, 97, 115, 45, 99, 118, DQ, LF>>

\* setup( CR LF name="keras-cv") CR LF
SetupCrLf ==
    <<115, 101, 116, 117, 112, 40, CR, LF, 110, 97, 109, 101, 61, DQ, 107,
      101, 114, 97, 115, 45, 99, 118, DQ, 41, CR, LF>>

\* name="keras-cv", the byte FF and a line feed: not UTF-8
SetupNotUtf8 ==
    <<110, 97, 109, 101, 61, DQ, 107, 101, 114, 97, 115, 45, 99, 118, DQ, 255,
      LF>>

VersionContents ==
    {VersionLf, VersionCrLf, VersionTabs, VersionBackslash, VersionBadEscape,
     VersionMissing, VersionNotUtf8}

\* setup.py is the repository's: it holds the literal name="keras-cv".
SetupContents == {SetupLf, SetupCrLf, SetupNotUtf8}

Clocks ==
    { [year |-> 2026, month |-> 10, day |-> 30, hour |-> 14],
      [year |-> 2027, month |-> 1, day |-> 5, hour |-> 9] }

WheelRelease ==
    \* "pkg-1.2.3.whl"
    <<112, 107, 103, 45, 49, 46, 50, 46, 51, 46, 119, 104, 108>>

WheelDev99 ==
    <<112, 107, 103, 45, 49, 46, 50, 46, 51, 46, 100, 101, 118, 57, 57, 46,
      119, 104, 108>>   \* "pkg-1.2.3.dev99.whl"

WheelOld ==
    <<112, 107, 103, 45, 48, 46, 57, 46, 119, 104, 108>>   \* "pkg-0.9.whl"

WheelNightly ==
    <<112, 107, 103, 45, 49, 46, 50, 46, 51, 46, 100, 101, 118, 50, 48, 50,
      \* "pkg-1.2.3.dev2026103014.whl"
      54, 49, 48, 51, 48, 49, 52, 46, 119, 104, 108>>

NotAWheel ==
    \* "pkg-1.2.3.zip"
    <<112, 107, 103, 45, 49, 46, 50, 46, 51, 46, 122, 105, 112>>

FileNames == {WheelRelease, WheelDev99, WheelOld, WheelNightly, NotAWheel}

BuiltFiles ==
    {[name |-> n, mtime |-> t, data |-> "built"] :
        n \in FileNames, t \in 1..MaxMtime}

\* What the wheels directory can hold after the packaging command.
WheelDirs ==
    {[exists |-> FALSE, files |-> {}]}
    \cup {[exists |-> TRUE, files |-> S] :
            S \in {T \in SUBSET BuiltFiles :
                     /\ Cardinality(T) <= MaxWheels
                     /\ \A f, g \in T : f.name = g.name => f = g}}

DistDirs ==
    { {}, {[name |-> WheelRelease, mtime |-> 0, data |-> "stale"]} }

NoExc == [type |-> "none", returncode |-> 0]

NoCtx == [original_version_content |-> <<>>,
          original_setup_content |-> <<>>,
          version |-> <<>>, updated_version |-> <<>>]

NoBuildOut == [searched |-> FALSE, dir |-> [exists |-> FALSE, files |-> {}],
               version |-> <<>>, listing |-> <<>>, wheel |-> NoWheel,
               returned |-> FALSE, value |-> <<>>]

-----------------------------------------------------------------------------
(* Initial values of the parts a specification does not use.               *)

LocIdle   == lastCall = NoCall
LazyIdle  == /\ tf_version = <<>>
             /\ abi_warning_already_raised = FALSE
             /\ warnings_filter = "default"
             /\ so_ops = <<>>
             /\ warnings_emitted = <<>>
             /\ lastAccess = NoAccess
BuildIdle == /\ pc = "idle"
             /\ args = [nightly |-> FALSE, install |-> FALSE]
             /\ version_file = <<>>
             /\ setup_file = <<>>
             /\ pre_build = <<>>
             /\ ctx = NoCtx
             /\ wheels = [exists |-> FALSE, files |-> {}]
             /\ dist = {}
             /\ cmd_log = <<>>
             /\ exc = NoExc
             /\ build_out = NoBuildOut
             /\ exit_status = -1

-----------------------------------------------------------------------------
(* The locator called directly.                                            *)

InitLocator ==
    /\ environ \in Overrides
    /\ \E p \in Paths : existing \in SUBSET CandidateSet(p, environ)
    /\ LocIdle /\ LazyIdle /\ BuildIdle

\* A call get_path_to_datafile(path).  The function keeps no state between
\* calls, so a behaviour makes one call: a second call is the first call of
\* another behaviour.
Resolve ==
    /\ ~lastCall.called
    /\ \E path \in Paths :
           lastCall' = [called |-> TRUE, path |-> path,
                        res |-> get_path_to_datafile(path, environ, existing)]
    /\ UNCHANGED <<envVars, lazyVars, buildVars>>

NextLocator == Resolve

SpecLocator == InitLocator /\ [][NextLocator]_vars

-----------------------------------------------------------------------------
(* LazySO handles in one process.                                          *)

InitLazy ==
    /\ environ = Unset
    /\ \E p \in LazyPaths : existing \in SUBSET CandidateSet(p, environ)
    /\ tf_version \in TfVersions
    /\ abi_warning_already_raised = FALSE
    /\ warnings_filter \in WarningsFilters
    /\ so_ops = <<>>
    /\ warnings_emitted = <<>>
    /\ lastAccess = NoAccess
    /\ LocIdle /\ BuildIdle

\* A handle is constructed.
NewHandle ==
    /\ Len(so_ops) < MaxHandles
    /\ \E p \in LazyPaths : so_ops' = Append(so_ops, LazySO(p))
    /\ UNCHANGED <<envVars, locVars, tf_version, abi_warning_already_raised,
                   warnings_filter, warnings_emitted, lastAccess, buildVars>>

\* handle.ops is read.  The access returns the library or raises; a raised
\* UserWarning leaves the flag and the handle as they were.
Access ==
    /\ Len(warnings_emitted) < MaxWarnLog
    /\ \E h \in 1..Len(so_ops) : \E load_ok \in BOOLEAN :
         LET r == ops(so_ops[h], abi_warning_already_raised, tf_version,
                      warnings_filter, environ, existing, load_ok)
         IN  /\ so_ops' = [so_ops EXCEPT ![h] = r.self]
             /\ abi_warning_already_raised' = r.flag
             /\ warnings_emitted' =
                    IF r.warned
                    THEN Append(warnings_emitted,
                                [user_version |-> tf_version,
                                 raised |-> r.outcome.kind = "UserWarning"])
                    ELSE warnings_emitted
             /\ lastAccess' = [called |-> TRUE, handle |-> h,
                               self |-> so_ops[h],
                               flag |-> abi_warning_already_raised,
                               load_ok |-> load_ok, warned |-> r.warned,
                               outcome |-> r.outcome]
    /\ UNCHANGED <<envVars, locVars, tf_version, warnings_filter, buildVars>>

\* handle.display_warning_if_incompatible() is called directly: the method
\* is public.  It reads the flag of the module, sets it unless the warning
\* is raised, and touches neither the handle nor any library.
DisplayWarning ==
    /\ Len(warnings_emitted) < MaxWarnLog
    /\ so_ops # <<>>
    /\ LET r == display_warning_if_incompatible(abi_warning_already_raised,
                                                tf_version, warnings_filter)
       IN  /\ abi_warning_already_raised' = r.flag
           /\ warnings_emitted' =
                  IF r.warned
                  THEN Append(warnings_emitted,
                              [user_version |-> tf_version,
                               raised |-> r.raised])
                  ELSE warnings_emitted
    /\ UNCHANGED <<envVars, locVars, tf_version, warnings_filter, so_ops,
                   lastAccess, buildVars>>

NextLazy == NewHandle \/ Access \/ DisplayWarning

SpecLazy == InitLazy /\ [][NextLazy]_vars

-----------------------------------------------------------------------------
(* Properties of the locator.                                              *)

\* The search order, as a list of literal directories.
OrderedRoots(env) ==
    (IF env.set /\ env.val # <<>> THEN <<env.val>> ELSE <<>>)
    \o << <<47, 119, 47, 107, 101, 114, 97, 115, 95, 99, 118, 47, 115, 114,
            99>>,   \* "/w/keras_cv/src"
          \* "/w/keras_cv"
          <<47, 119, 47, 107, 101, 114, 97, 115, 95, 99, 118>>,
          <<47, 119, 47, 98, 97, 122, 101, 108, 45, 98, 105, 110, 47, 107,
            \* "/w/bazel-bin/keras_cv/src"
            101, 114, 97, 115, 95, 99, 118, 47, 115, 114, 99>> >>

JoinedPath(root, path) == normpath(join(root, path))

\* The positions, in the search order, of the roots under which the
\* resource exists.
RootsHolding(env, path, ex) ==
    {i \in 1..Len(OrderedRoots(env)) :
        JoinedPath(OrderedRoots(env)[i], path) \in ex}

\* C2: the call returns the joined path of the first root, in the order
\* [override if set and non-empty, project root, its parent,
\* <workspace>/bazel-bin/keras_cv/src], under which the resource exists.
C2_FirstHoldingRootWins ==
    lastCall.called =>
        LET S == RootsHolding(environ, lastCall.path, existing)
        IN  S # {} =>
              /\ ~lastCall.res.raised
              /\ lastCall.res.value =
                   JoinedPath(OrderedRoots(environ)[Min(S)], lastCall.path)

\* The resource exists under the override root and under a later root as
\* well, at a different path, and the override's candidate is returned.
C2_Witness ==
    /\ lastCall.called
    /\ Truthy(environ)
    /\ LET S == RootsHolding(environ, lastCall.path, existing)
           R == OrderedRoots(environ)
       IN  /\ 1 \in S /\ Cardinality(S) >= 2
           /\ \E j \in S : JoinedPath(R[j], lastCall.path)
                             # JoinedPath(R[1], lastCall.path)
           /\ lastCall.res.value = JoinedPath(R[1], lastCall.path)

\* C3: FileNotFoundError is raised exactly when the resource exists under
\* none of the searched roots, and the paths of its message are then the
\* candidates of all the searched roots, one each, in search order: 4 when
\* the override is set and non-empty, 3 otherwise.
C3_NotFoundListsEveryRoot ==
    lastCall.called =>
        LET S == RootsHolding(environ, lastCall.path, existing)
            R == OrderedRoots(environ)
        IN  /\ lastCall.res.raised <=> (S = {})
            /\ lastCall.res.raised =>
                 /\ lastCall.res.attempted =
                      [i \in 1..Len(R) |-> JoinedPath(R[i], lastCall.path)]
                 /\ Len(lastCall.res.attempted)
                      = IF environ.set /\ environ.val # <<>> THEN 4 ELSE 3

\* The error is raised with the override set while other files exist, and
\* four paths are listed.
C3_Witness ==
    /\ lastCall.called
    /\ lastCall.res.raised
    /\ Truthy(environ)
    /\ existing # {}
    /\ Len(lastCall.res.attempted) = 4

\* The error is raised with the override set to the empty string.
C3_WitnessEmptyOverride ==
    /\ lastCall.called
    /\ lastCall.res.raised
    /\ environ = EnvStr(<<>>)
    /\ Len(lastCall.res.attempted) = 3

-----------------------------------------------------------------------------
(* Properties of LazySO.                                                   *)

\* C6: with a TensorFlow version that does not start with the pinned one,
\* the warning is issued at most once over all accesses of all handles: by
\* the first access, unless the filters drop it, and by no later one.
C6_WarningAtMostOnce ==
    ~abi_is_compatible(tf_version) =>
        /\ Len(warnings_emitted) <= 1
        /\ (lastAccess.called /\ warnings_filter # "ignore") =>
               Len(warnings_emitted) = 1
        /\ (lastAccess.called /\ lastAccess.warned) => ~lastAccess.flag

\* What the code gives: at most one warning when warnings.warn returns.
WarningAtMostOnceWhenWarnReturns ==
    warnings_filter # "error" => C6_WarningAtMostOnce

\* Under the filter "error" the flag is never set, and every access of a
\* handle that has no library raises the warning.
WarningRaisedLeavesFlagUnset ==
    (warnings_filter = "error" /\ ~abi_is_compatible(tf_version)) =>
        /\ ~abi_warning_already_raised
        /\ \A i \in 1..Len(warnings_emitted) : warnings_emitted[i].raised
        /\ \A h \in 1..Len(so_ops) : so_ops[h]._ops = None
        /\ lastAccess.called =>
              /\ lastAccess.warned
              /\ lastAccess.outcome.kind = "UserWarning"

\* The warning was issued by an access and again by a later access of
\* another handle.
WarnedTwice ==
    /\ ~abi_is_compatible(tf_version)
    /\ Len(warnings_emitted) = 2
    /\ lastAccess.called
    /\ lastAccess.handle = 2
    /\ lastAccess.warned

\* After the one warning, a second handle is accessed, its load fails, and
\* no second warning was issued.
WarnedOnceAcrossHandles ==
    /\ ~abi_is_compatible(tf_version)
    /\ Len(warnings_emitted) = 1
    /\ lastAccess.called
    /\ lastAccess.handle = 2
    /\ lastAccess.flag
    /\ lastAccess.outcome.kind = "LoadError"
    /\ so_ops[1]._ops = None

\* C8: with a version that does not match, an access of a handle that has
\* no library still resolves the path and attempts the load: it raises
\* FileNotFoundError exactly when no search root holds the file, and
\* otherwise hands the resolved path to the loader, keeps the library when
\* the loader accepts it and raises the loader's error when it does not.
C8_MismatchNeverBlocksLoad ==
    (/\ lastAccess.called
     /\ ~abi_is_compatible(tf_version)
     /\ lastAccess.self._ops = None) =>
        LET p == get_path_to_datafile(lastAccess.self.relative_path,
                                      environ, existing)
            after == so_ops[lastAccess.handle]
        IN  IF p.raised
            THEN /\ lastAccess.outcome.kind = "FileNotFoundError"
                 /\ after._ops = None
            ELSE IF lastAccess.load_ok
            THEN /\ lastAccess.outcome = [kind |-> "loaded", value |-> p.value]
                 /\ after._ops = Lib(p.value)
            ELSE /\ lastAccess.outcome = [kind |-> "LoadError", value |-> p.value]
                 /\ after._ops = None

\* What the code gives: the load is attempted when warnings.warn returns.
MismatchLoadsWhenWarnReturns ==
    warnings_filter # "error" => C8_MismatchNeverBlocksLoad

\* An access that warned about the mismatch and loaded the library.
WarnedAndLoaded ==
    /\ lastAccess.called
    /\ ~abi_is_compatible(tf_version)
    /\ lastAccess.warned
    /\ lastAccess.outcome.kind = "loaded"
    /\ so_ops[lastAccess.handle]._ops = Lib(lastAccess.outcome.value)

\* An access stopped by the warning although the library is there and the
\* loader would accept it.
LoadBlockedByWarning ==
    /\ lastAccess.called
    /\ ~abi_is_compatible(tf_version)
    /\ lastAccess.outcome.kind = "UserWarning"
    /\ lastAccess.load_ok
    /\ ~get_path_to_datafile(lastAccess.self.relative_path,
                             environ, existing).raised
    /\ so_ops[lastAccess.handle]._ops = None

-----------------------------------------------------------------------------
(* pip_build.py run as a script: build, then the optional install.         *)

RootPath      == <<47, 119>>   \* "/w"
dist_directory == <<100, 105, 115, 116>>   \* "dist"

InitBuild ==
    /\ environ = Unset
    /\ existing = {}
    /\ LocIdle /\ LazyIdle
    /\ pc = "start"
    /\ args \in [nightly : BOOLEAN, install : BOOLEAN]
    /\ version_file \in VersionContents
    /\ setup_file \in SetupContents
    /\ dist \in DistDirs
    /\ pre_build = [version |-> version_file, setup |-> setup_file,
                    dist |-> dist]
    /\ ctx = NoCtx
    /\ wheels = [exists |-> FALSE, files |-> {}]
    /\ cmd_log = <<>>
    /\ exc = NoExc
    /\ build_out = NoBuildOut
    /\ exit_status = -1

\* build, lines 77-79, and nightly_overrides up to its try, lines 32-38:
\* the wheels directory is made, the two files are read, the version file
\* is read again and the version parsed.
Enter ==
    /\ pc = "start"
    /\ wheels' = [wheels EXCEPT !.exists = TRUE]
    /\ LET v == read_text(version_file)
           s == read_text(setup_file)
           parsed == parse_version(v.text)
       IN  IF v.raised \/ s.raised
           THEN /\ ctx' = NoCtx
                /\ exc' = Raised("UnicodeDecodeError")
                /\ pc' = "raised"
           ELSE /\ ctx' = [original_version_content |-> v.text,
                           original_setup_content |-> s.text,
                           version |-> parsed.version,
                           updated_version |-> parsed.version]
                /\ IF parsed.raised
                   THEN exc' = Raised("ValueError") /\ pc' = "raised"
                   ELSE exc' = exc /\ pc' = "try"
    /\ UNCHANGED <<envVars, locVars, lazyVars, args, version_file, setup_file,
                   pre_build, dist, cmd_log, build_out, exit_status>>

\* nightly_overrides, lines 40-55: the two files are rewritten for a nightly
\* build, and the version is yielded.  An error of re.sub or of a write
\* leaves the try for the finally clause.
NightlyRewrite ==
    /\ pc = "try"
    /\ IF args.nightly
       THEN \E now \in Clocks :
              LET updated_version == UpdatedVersion(ctx.version, now)
                  new_version_content ==
                      NewVersionContent(ctx.original_version_content,
                                        updated_version)
              IN  /\ ctx' = [ctx EXCEPT !.updated_version = updated_version]
                  /\ IF new_version_content.raised # "none"
                     THEN /\ UNCHANGED <<version_file, setup_file>>
                          /\ pc' = "finally"
                          /\ exc' = Raised(new_version_content.raised)
                     ELSE \E w1 \in WriteResults(version_file,
                                                 new_version_content.value) :
                            /\ version_file' = w1.file
                            /\ IF w1.raised # "none"
                               THEN /\ setup_file' = setup_file
                                    /\ pc' = "finally"
                                    /\ exc' = Raised(w1.raised)
                               ELSE \E w2 \in WriteResults(
                                           setup_file,
                                           NewSetupContent(
                                               ctx.original_setup_content)) :
                                      /\ setup_file' = w2.file
                                      /\ IF w2.raised # "none"
                                         THEN /\ pc' = "finally"
                                              /\ exc' = Raised(w2.raised)
                                         ELSE /\ pc' = "configure"
                                              /\ exc' = exc
       ELSE /\ pc' = "configure"
            /\ UNCHANGED <<ctx, version_file, setup_file, exc>>
    /\ UNCHANGED <<envVars, locVars, lazyVars, args, pre_build, wheels, dist,
                   cmd_log, build_out, exit_status>>

\* run_command, lines 17-19, for one command of build: the command runs
\* and exits with rc; check=True raises CalledProcessError when rc is not 0.
\* The command is external: it sees the two files as they are on disk, and
\* the packaging command leaves any wheels in the wheels directory.
RunCommand(cmd, next, custom_ops, writes_wheels) ==
    /\ pc = cmd
    /\ \E rc \in 0..MaxRc :
         /\ cmd_log' = Append(cmd_log,
                              [cmd |-> cmd, rc |-> rc,
                               version_seen |-> version_file,
                               setup_seen |-> setup_file,
                               custom_ops |-> custom_ops])
         /\ IF rc = 0
            THEN pc' = next /\ exc' = exc
            ELSE /\ pc' = "finally"
                 /\ exc' = [type |-> "CalledProcessError", returncode |-> rc]
         /\ IF writes_wheels /\ rc = 0
            THEN wheels' \in WheelDirs
            ELSE wheels' = wheels
    /\ UNCHANGED <<envVars, locVars, lazyVars, args, version_file, setup_file,
                   pre_build, ctx, dist, build_out, exit_status>>

\* Line 83
Configure == RunCommand("configure", "bazel", FALSE, FALSE)
\* Line 84
BazelBuild == RunCommand("bazel", "package", FALSE, FALSE)
\* Lines 85-91
Package == RunCommand("package", "finally", TRUE, TRUE)

\* nightly_overrides, lines 56-59: the finally clause.  When both writes
\* return, the exception in flight, if any, goes on to the caller of build.
\* When a write raises, the write after it is not made and its exception
\* goes to the caller, in place of the exception in flight.
Restore ==
    /\ pc = "finally"
    /\ IF args.nightly
       THEN \E w1 \in WriteResults(version_file,
                                   ctx.original_version_content) :
              /\ version_file' = w1.file
              /\ IF w1.raised # "none"
                 THEN /\ setup_file' = setup_file
                      /\ exc' = Raised(w1.raised)
                      /\ pc' = "raised"
                 ELSE \E w2 \in WriteResults(setup_file,
                                             ctx.original_setup_content) :
                        /\ setup_file' = w2.file
                        /\ IF w2.raised # "none"
                           THEN exc' = Raised(w2.raised) /\ pc' = "raised"
                           ELSE /\ exc' = exc
                                /\ pc' = IF exc = NoExc THEN "locate"
                                         ELSE "raised"
       ELSE /\ UNCHANGED <<version_file, setup_file, exc>>
            /\ pc' = IF exc = NoExc THEN "locate" ELSE "raised"
    /\ UNCHANGED <<envVars, locVars, lazyVars, args, pre_build, ctx, wheels,
                   dist, cmd_log, build_out, exit_status>>

\* build, lines 93-103: the wheel is located and copied to dist.
LocateAndCopy ==
    /\ pc = "locate"
    /\ \E listing \in Listings(Glob(wheels)) :
         LET wheel == locate_wheel(wheels, ctx.updated_version, listing)
         IN  /\ build_out' =
                  [searched |-> TRUE, dir |-> wheels,
                   version |-> ctx.updated_version, listing |-> listing,
                   wheel |-> wheel, returned |-> TRUE,
                   value |-> IF wheel = NoWheel THEN <<>>
                             ELSE join(join(RootPath, dist_directory),
                                       wheel.name)]
             /\ dist' = IF wheel = NoWheel THEN dist
                        ELSE {f \in dist : f.name # wheel.name} \cup {wheel}
    /\ pc' = "returned"
    /\ UNCHANGED <<envVars, locVars, lazyVars, args, version_file, setup_file,
                   pre_build, ctx, wheels, cmd_log, exc, exit_status>>

\* __main__, lines 133-137: build raised.  CalledProcessError is caught and
\* its return code is the exit status; any other exception is not caught,
\* and the interpreter exits with status 1.
MainExcept ==
    /\ pc = "raised"
    /\ exit_status' = IF exc.type = "CalledProcessError"
                      THEN exc.returncode % 256
                      ELSE 1
    /\ pc' = "exited"
    /\ UNCHANGED <<envVars, locVars, lazyVars, args, version_file, setup_file,
                   pre_build, ctx, wheels, dist, cmd_log, exc, build_out>>

\* __main__, lines 139-140, and install_whl: build returned.  The install
\* runs outside the try of line 133, so its CalledProcessError is not
\* caught, and the interpreter exits with status 1.
MainInstall ==
    /\ pc = "returned"
    /\ IF build_out.value # <<>> /\ args.install
       THEN \E rc \in 0..MaxRc :
              /\ cmd_log' = Append(cmd_log,
                                   [cmd |-> "pip", rc |-> rc,
                                    version_seen |-> version_file,
                                    setup_seen |-> setup_file,
                                    custom_ops |-> FALSE])
              /\ IF rc = 0
                 THEN exit_status' = 0 /\ exc' = exc
                 ELSE /\ exit_status' = 1
                      /\ exc' = [type |-> "CalledProcessError",
                                 returncode |-> rc]
       ELSE /\ exit_status' = 0
            /\ UNCHANGED <<cmd_log, exc>>
    /\ pc' = "exited"
    /\ UNCHANGED <<envVars, locVars, lazyVars, args, version_file, setup_file,
                   pre_build, ctx, wheels, dist, build_out>>

NextBuild ==
    \/ Enter
    \/ NightlyRewrite
    \/ Configure
    \/ BazelBuild
    \/ Package
    \/ Restore
    \/ LocateAndCopy
    \/ MainExcept
    \/ MainInstall

SpecBuild == InitBuild /\ [][NextBuild]_vars

-----------------------------------------------------------------------------
(* Properties of the release builder.                                      *)

BuildCommands == <<"configure", "bazel", "package">>

IsBuildCommand(entry) ==
    \E i \in 1..Len(BuildCommands) : entry.cmd = BuildCommands[i]

\* The call of build is over: it raised or returned.
BuildOver == pc \in {"raised", "returned", "exited"}

V123 ==
    <<49, 46, 50, 46, 51>>   \* "1.2.3"

\* C1: after a call of build that captured the two files, whatever the exit
\* path, the version file and setup.py hold exactly the bytes they held
\* before the call.
C1_FilesAsBeforeTheCall ==
    BuildOver =>
        /\ version_file = pre_build.version
        /\ setup_file = pre_build.setup

\* What the code does give when no write of the finally clause raised: the
\* two files hold their earlier text, with every line ending written as
\* os.linesep; files without a carriage return are as before, byte for
\* byte.
FilesRestoredAsText ==
    (BuildOver /\ exc # OSError) =>
        /\ read_text(version_file) = read_text(pre_build.version)
        /\ read_text(setup_file) = read_text(pre_build.setup)
        /\ (\A i \in 1..Len(pre_build.version) : pre_build.version[i] # CR)
              => version_file = pre_build.version
        /\ (\A i \in 1..Len(pre_build.setup) : pre_build.setup[i] # CR)
              => setup_file = pre_build.setup
        /\ ~args.nightly =>
              version_file = pre_build.version /\ setup_file = pre_build.setup

\* C4: with exactly pkg-1.2.3.whl and pkg-1.2.3.dev99.whl in the wheels
\* directory and target version 1.2.3, pkg-1.2.3.whl is selected, whatever
\* the modification times.
C4_ExactVersionWins ==
    ( /\ build_out.searched
      /\ build_out.dir.exists
      /\ {f.name : f \in build_out.dir.files} = {WheelRelease, WheelDev99}
      /\ build_out.version = V123 )
    => build_out.wheel.name = WheelRelease

\* What the code does give: the release wheel is selected when it is the
\* newer of the two (both names contain 1.2.3).
ReleaseWheelWinsWhenNewer ==
    ( /\ build_out.searched
      /\ build_out.dir.exists
      /\ {f.name : f \in build_out.dir.files} = {WheelRelease, WheelDev99}
      /\ build_out.version = V123
      /\ \E f, g \in build_out.dir.files :
            f.name = WheelRelease /\ g.name = WheelDev99 /\ f.mtime > g.mtime )
    => build_out.wheel.name = WheelRelease

\* C5: when an external command of the script (configure, bazel build,
\* packaging, or the pip install) exits non-zero, the script exits with
\* that command's exit code.
C5_ExitStatusIsTheCommandsCode ==
    pc = "exited" =>
        \A i \in 1..Len(cmd_log) :
            cmd_log[i].rc # 0 =>
                /\ exit_status # 0
                /\ exit_status = cmd_log[i].rc

\* What the code does give: the exit code of a command of build is the
\* exit status unless a write of the finally clause raised; a failed
\* install gives a non-zero status.
BuildCommandCodeIsExitStatus ==
    pc = "exited" =>
        \A i \in 1..Len(cmd_log) :
            cmd_log[i].rc # 0 =>
                /\ exit_status # 0
                /\ (IsBuildCommand(cmd_log[i]) /\ exc # OSError)
                      => exit_status = cmd_log[i].rc

IsDigit(c) == \E d \in 1..Len(DigitChars) : c = DigitChars[d]

\* V.dev<YYYYMMDDHH> for the original version V
IsNightlyVersionOf(updated, version) ==
    /\ Len(updated) = Len(version) + Len(DevInfix) + 10
    /\ SubSeq(updated, 1, Len(version) + Len(DevInfix)) = version \o DevInfix
    /\ \A i \in (Len(version) + Len(DevInfix) + 1)..Len(updated) :
           IsDigit(updated[i])

\* What every command of a nightly build sees on disk.
NightlySeenByCommands ==
    args.nightly =>
        /\ \A i \in 1..Len(cmd_log) :
             IsBuildCommand(cmd_log[i]) =>
               /\ parse_version(read_text(cmd_log[i].version_seen).text)
                    .version = ctx.updated_version
               /\ IsNightlyVersionOf(ctx.updated_version, ctx.version)
               /\ parse_version(read_text(pre_build.version).text).version
                    = ctx.version
               /\ Contains(cmd_log[i].setup_seen, NightlyNameLiteral)
               /\ ~Contains(cmd_log[i].setup_seen, NameLiteral)
        /\ build_out.searched =>
             /\ build_out.version = ctx.updated_version
             /\ IsNightlyVersionOf(build_out.version, ctx.version)

\* What the code does give: every command of a nightly build sees the
\* nightly version and the nightly name when the version in the file holds
\* no backslash; with one, re.sub takes the replacement as a template.
NightlySeenWithoutBackslash ==
    (\A i \in 1..Len(ctx.version) : ctx.version[i] # Backslash)
        => NightlySeenByCommands

\* C7: in a nightly build with original version V, each of the three
\* commands runs with the version file declaring V.dev<YYYYMMDDHH> and
\* setup.py naming keras-cv-nightly; the same version selects the wheel;
\* after the build the version file is identical to its earlier content.
C7_NightlySeenThenUndone ==
    /\ NightlySeenByCommands
    /\ (args.nightly /\ BuildOver) => version_file = pre_build.version

\* The commands of build run in the order configure, bazel build,
\* packaging, each only after all earlier ones exited with zero.
CommandsInOrder ==
    \A i \in 1..Len(cmd_log) :
        /\ i <= 3 => cmd_log[i].cmd = BuildCommands[i]
        /\ IsBuildCommand(cmd_log[i]) => i <= 3
        /\ \A j \in 1..(i - 1) : cmd_log[j].rc = 0

\* The two files after the finally clause ran and both its writes returned.
FilesAsRestored ==
    /\ version_file = IF args.nightly
                      THEN write_text(ctx.original_version_content)
                      ELSE pre_build.version
    /\ setup_file = IF args.nightly
                    THEN write_text(ctx.original_setup_content)
                    ELSE pre_build.setup
    /\ read_text(version_file) = read_text(pre_build.version)
    /\ read_text(setup_file) = read_text(pre_build.setup)

\* The two files after a write of the finally clause raised, with seen_v
\* and seen_s the bytes the files held when the clause was entered: the
\* version file holds those bytes or a proper prefix of the restored bytes
\* and setup.py was not written; or the version file is restored and
\* setup.py holds its bytes or a proper prefix of its restored bytes.
FilesAfterFailedRestore(seen_v, seen_s) ==
    LET rv == write_text(ctx.original_version_content)
        rs == write_text(ctx.original_setup_content)
    IN  \/ /\ setup_file = seen_s
           /\ \/ version_file = seen_v
              \/ \E k \in 0..(Len(rv) - 1) : version_file = SubSeq(rv, 1, k)
        \/ /\ version_file = rv
           /\ \/ setup_file = seen_s
              \/ \E k \in 0..(Len(rs) - 1) : setup_file = SubSeq(rs, 1, k)

\* C9: the commands run in the order configure, bazel build,
\* packaging, each only after all earlier ones exited with zero; when one
\* exits non-zero no later command runs, the two files are restored, no
\* wheel is searched for, dist is not touched, and build raises the
\* command's error instead of returning.
C9_InOrderAndFailureStops ==
    /\ CommandsInOrder
    /\ \A i \in 1..Len(cmd_log) :
         (IsBuildCommand(cmd_log[i]) /\ cmd_log[i].rc # 0) =>
            /\ i = Len(cmd_log)
            /\ exc = [type |-> "CalledProcessError",
                      returncode |-> cmd_log[i].rc]
            /\ pc \in {"finally", "raised", "exited"}
            /\ ~build_out.searched
            /\ ~build_out.returned
            /\ dist = pre_build.dist
            /\ pc # "finally" => FilesAsRestored

\* What the code does give: the commands run in the order configure, bazel
\* build, packaging, each only after all earlier ones exited with zero;
\* when one exits non-zero no later command runs, no wheel is searched
\* for, dist is not touched, the finally clause runs and build raises
\* instead of returning: the command's error with the two files restored
\* when both writes of the clause return, and OSError when one of them
\* raises, the file of that write then holding its nightly bytes or a
\* proper prefix of its restored bytes, and the write after it not made.
InOrderAndFailureStops ==
    /\ CommandsInOrder
    /\ \A i \in 1..Len(cmd_log) :
         (IsBuildCommand(cmd_log[i]) /\ cmd_log[i].rc # 0) =>
            /\ i = Len(cmd_log)
            /\ pc \in {"finally", "raised", "exited"}
            /\ ~build_out.searched
            /\ ~build_out.returned
            /\ dist = pre_build.dist
            /\ pc = "finally" =>
                 /\ exc = [type |-> "CalledProcessError",
                           returncode |-> cmd_log[i].rc]
                 /\ version_file = cmd_log[i].version_seen
                 /\ setup_file = cmd_log[i].setup_seen
            /\ pc # "finally" =>
                 \/ /\ exc = [type |-> "CalledProcessError",
                               returncode |-> cmd_log[i].rc]
                    /\ FilesAsRestored
                 \/ /\ exc = OSError
                    /\ args.nightly
                    /\ FilesAfterFailedRestore(cmd_log[i].version_seen,
                                               cmd_log[i].setup_seen)

\* The bazel build of a nightly build failed: the script is over, the
\* version file no longer declares the nightly version.
FailedBuildRestored ==
    /\ pc = "exited"
    /\ args.nightly
    /\ Len(cmd_log) = 2
    /\ cmd_log[2].cmd = "bazel"
    /\ cmd_log[2].rc = 2
    /\ cmd_log[2].version_seen # version_file
    /\ version_file = pre_build.version
    /\ exit_status = 2

\* The bazel build of a nightly build failed and the restoring write of the
\* version file raised: setup.py still names the nightly package, and the
\* exit status is not the command's.
FailedBuildNotRestored ==
    /\ pc = "exited"
    /\ args.nightly
    /\ Len(cmd_log) = 2
    /\ cmd_log[2].rc = 2
    /\ exc = OSError
    /\ version_file = cmd_log[2].version_seen
    /\ Contains(setup_file, NightlyNameLiteral)
    /\ exit_status = 1

\* "/w/dist/"
DistPathOf(name) == <<47, 119, 47, 100, 105, 115, 116, 47>> \o name

\* C10: after a successful build, if no wheel's name contains the target
\* version, the most recently modified wheel is selected; if there is no
\* wheel, build returns None and dist is not touched; otherwise the
\* selected wheel, and nothing else, is copied to dist under its own name,
\* the wheels directory is unchanged, and the copy's path is returned.
C10_SelectionAndCopy ==
    build_out.searched =>
        LET W == IF build_out.dir.exists THEN Glob(build_out.dir) ELSE {}
            sel == build_out.wheel
        IN  /\ (W # {} /\ \A f \in W : ~Contains(f.name, build_out.version))
                 => /\ sel \in W
                    /\ \A f \in W : f.mtime <= sel.mtime
            /\ W = {} =>
                 /\ build_out.value = <<>>
                 /\ dist = pre_build.dist
            /\ W # {} =>
                 /\ sel \in W
                 /\ dist = {f \in pre_build.dist : f.name # sel.name}
                             \cup {sel}
                 /\ wheels = build_out.dir
                 /\ build_out.value = DistPathOf(sel.name)

\* No wheel's name contains the target version, the newer of two wheels
\* was selected and is in dist next to the file dist held before.
C10_Witness ==
    /\ build_out.searched
    /\ Cardinality(Glob(build_out.dir)) = 2
    /\ \A f \in Glob(build_out.dir) : ~Contains(f.name, build_out.version)
    /\ \E f \in Glob(build_out.dir) : f.mtime < build_out.wheel.mtime
    /\ build_out.wheel \in dist
    /\ pre_build.dist # {}
    /\ Cardinality(dist) = 2

====
